---- MODULE Spec2Model ----
(***************************************************************************)
(* Model of the Home-Canvas composition pipeline                           *)
(* (src/services/geminiService.ts): the letterbox geometry computed by     *)
(* resizeImage, markImage and cropToOriginalAspectRatio, and the           *)
(* orchestration of generateCompositeImage around the two model calls.     *)
(* Further sections model the click translation of ImageUploader           *)
(* (src/unnamed/part_000) and the state and handlers of the App component  *)
(* (src/App.tsx).                                                          *)
(*                                                                         *)
(* Numbers that JavaScript computes in floating point are modelled as      *)
(* exact rationals [n, d] in lowest terms with d > 0; d = 0 stands for the  *)
(* values a division by zero gives: [1, 0] is Infinity, [-1, 0] is          *)
(* -Infinity and [0, 0] is NaN.                                            *)
(***************************************************************************)
EXTENDS Integers, Sequences, FiniteSets, TLC

(***************************************************************************)
(* Bounds of the model                                                     *)
(***************************************************************************)
\* scene and product images have width and height in 1..MaxDim (plus ReferenceDims)
MaxDim == 3
\* targets tried by the geometry harness are 1..MaxTarget (plus MAX_DIMENSION)
MaxTarget == 4

\* line 278: const MAX_DIMENSION = 1024
MAX_DIMENSION == 1024

(***************************************************************************)
(* Rational arithmetic                                                     *)
(***************************************************************************)
Abs(i) == IF i < 0 THEN -i ELSE i

RECURSIVE GCD(_, _)
GCD(a, b) == IF b = 0 THEN a ELSE GCD(b, a % b)

\* the rational n/d (d > 0) in lowest terms; n/0 is NaN for n = 0, else +-Infinity
Rat(n, d) ==
    IF n = 0 /\ d = 0 THEN [n |-> 0, d |-> 0]
    ELSE LET g == GCD(Abs(n), d)
         IN  [n |-> n \div g, d |-> d \div g]

IsNaN(a) == a.n = 0 /\ a.d = 0

FromInt(i) == [n |-> i, d |-> 1]

RatTimes(a, b) == Rat(a.n * b.n, a.d * b.d)

\* a / b for b > 0
RatDivide(a, b) == Rat(a.n * b.d, a.d * b.n)

RatPlus(a, b) == Rat(a.n * b.d + b.n * a.d, a.d * b.d)

RatMinus(a, b) == Rat(a.n * b.d - b.n * a.d, a.d * b.d)

RatGreater(a, b) == a.n * b.d > b.n * a.d

RatLeq(a, b) == ~IsNaN(a) /\ ~IsNaN(b) /\ a.n * b.d <= b.n * a.d

RatMax(a, b) == IF RatGreater(a, b) THEN a ELSE b

\* rounding to the nearest integer where the code drops the fraction
Truncate_Round(a) == IF a.d = 0 THEN 0 ELSE (2 * a.n + a.d) \div (2 * a.d)

\* conversion of a non-negative number to an integer pixel count (canvas.width = x):
\* the fraction is dropped, NaN and Infinity become 0
Truncate(a) == IF a.d = 0 THEN 0 ELSE a.n \div a.d

(***************************************************************************)
(* Letterbox geometry, one definition per place that computes it           *)
(***************************************************************************)
\* resizeImage, lines 105-118: computed from the decoded image's own size
ResizeGeometry(imgWidth, imgHeight, targetDimension) ==
    LET aspectRatio == Rat(imgWidth, imgHeight)
        t           == FromInt(targetDimension)
        landscape   == RatGreater(aspectRatio, FromInt(1))
        newWidth    == IF landscape THEN t ELSE RatTimes(t, aspectRatio)
        newHeight   == IF landscape THEN RatDivide(t, aspectRatio) ELSE t
    IN  [width  |-> newWidth,
         height |-> newHeight,
         x      |-> RatDivide(RatMinus(t, newWidth), FromInt(2)),
         y      |-> RatDivide(RatMinus(t, newHeight), FromInt(2))]

\* markImage, lines 200-213: computed from the original dimensions passed in
MarkGeometry_FromPadded(originalWidth, originalHeight, targetDimension) ==
    LET t == FromInt(targetDimension)
    IN  [width |-> t, height |-> t, x |-> FromInt(0), y |-> FromInt(0)]

MarkGeometry(originalWidth, originalHeight, targetDimension) ==
    LET aspectRatio   == Rat(originalWidth, originalHeight)
        t             == FromInt(targetDimension)
        landscape     == RatGreater(aspectRatio, FromInt(1))
        contentWidth  == IF landscape THEN t ELSE RatTimes(t, aspectRatio)
        contentHeight == IF landscape THEN RatDivide(t, aspectRatio) ELSE t
    IN  [width  |-> contentWidth,
         height |-> contentHeight,
         x      |-> RatDivide(RatMinus(t, contentWidth), FromInt(2)),
         y      |-> RatDivide(RatMinus(t, contentHeight), FromInt(2))]

\* cropToOriginalAspectRatio, lines 41-53
CropGeometry_Inverted(originalWidth, originalHeight, targetDimension) ==
    LET aspectRatio   == Rat(originalWidth, originalHeight)
        t             == FromInt(targetDimension)
        landscape     == RatGreater(aspectRatio, FromInt(1))
        contentWidth  == IF landscape THEN RatTimes(t, aspectRatio) ELSE t
        contentHeight == IF landscape THEN t ELSE RatDivide(t, aspectRatio)
    IN  [width  |-> contentWidth,
         height |-> contentHeight,
         x      |-> RatDivide(RatMinus(t, contentWidth), FromInt(2)),
         y      |-> RatDivide(RatMinus(t, contentHeight), FromInt(2))]

CropGeometry(originalWidth, originalHeight, targetDimension) ==
    LET aspectRatio   == Rat(originalWidth, originalHeight)
        t             == FromInt(targetDimension)
        landscape     == RatGreater(aspectRatio, FromInt(1))
        contentWidth  == IF landscape THEN t ELSE RatTimes(t, aspectRatio)
        contentHeight == IF landscape THEN RatDivide(t, aspectRatio) ELSE t
    IN  [width  |-> contentWidth,
         height |-> contentHeight,
         x      |-> RatDivide(RatMinus(t, contentWidth), FromInt(2)),
         y      |-> RatDivide(RatMinus(t, contentHeight), FromInt(2))]

(***************************************************************************)
(* Values                                                                  *)
(***************************************************************************)
None == [kind |-> "none"]

\* a string value and the JavaScript value undefined
Str(s) == [type |-> "string", value |-> s]
Undefined == [type |-> "undefined"]

\* `${v}` in a template literal
TemplateString(v) == IF v.type = "undefined" THEN "undefined" ELSE v.value

\* line 323: the fixed fallback description
FallbackDescription == "at the specified location on the most prominent surface."

\* the sizes of the reference scenes (landscape, portrait) and one larger square
ReferenceDims == {<<1600, 900>>, <<900, 1600>>, <<2048, 2048>>}

SceneDims == ((1..MaxDim) \X (1..MaxDim)) \cup ReferenceDims

\* the sizes the geometry is computed for on its own: a width or height of 0 too
GeometryDims == ((0..MaxDim) \X (0..MaxDim)) \cup ReferenceDims

ProductDims == {<<1, 1>>, <<2, 1>>}

\* xPercent and yPercent of the drop position
Percents == {0, 50, 100}

\* the drop positions a caller passes: every pair of Percents, and two pairs
\* with a coordinate outside [0, 100] (the function accepts any number)
DropPositions == (Percents \X Percents) \cup {<<-10, 50>>, <<50, 150>>}

\* Product.applicationType (types.ts:12), passed by handleProductApply
ApplicationTypes == {"tile", "single"}

\* the File objects handed to generateCompositeImage
SourceFile(name, dims) ==
    [kind |-> "file", name |-> name, width |-> dims[1], height |-> dims[2]]

\* texts the description call can return: a sentence, the empty string, no text
DescriptionTexts == {Str("the wooden floor"), Str(""), Undefined}

\* parts of a composition response: text, or inline image data of some square size
TextPart == [kind |-> "text"]
ImagePart(id, side) == [kind |-> "inlineData", mimeType |-> "image/png",
                        data |-> [kind |-> "generated", id |-> id,
                                  width |-> side, height |-> side]]
ResponseParts == {TextPart, ImagePart(1, MAX_DIMENSION), ImagePart(2, 512)}

\* response.candidates?.[0]?.content?.parts: absent, or a list of parts
Responses ==
    {[candidates |-> FALSE, parts |-> <<>>]}
    \cup {[candidates |-> TRUE, parts |-> <<>>]}
    \cup {[candidates |-> TRUE, parts |-> <<p>>] : p \in ResponseParts}
    \cup {[candidates |-> TRUE, parts |-> <<p, q>>] : p \in ResponseParts, q \in ResponseParts}
    \cup {[candidates |-> TRUE,
           parts |-> <<TextPart, ImagePart(2, 512), ImagePart(1, MAX_DIMENSION)>>]}

(***************************************************************************)
(* Helpers of geminiService.ts                                             *)
(***************************************************************************)
\* getImageDimensions, lines 10-27, on success
getImageDimensions(file) == [width |-> file.width, height |-> file.height]

\* a canvas sized to the scaled content instead of the target square
resizeImage_ContentSized(file, targetDimension) ==
    LET geom == ResizeGeometry(file.width, file.height, targetDimension)
    IN  [kind    |-> "padded",
         name    |-> file.name,
         type    |-> "image/jpeg",
         width   |-> Truncate(geom.width),
         height  |-> Truncate(geom.height),
         content |-> geom,
         encodings |-> 1,
         marker  |-> None]

\* resizeImage, lines 79-138, on success: a new target x target JPEG file.
\* encodings counts the lossy JPEG encodings (toBlob 'image/jpeg', 0.95) between
\* the pixels of the source image and the pixels of this file (line 129-136).
resizeImage(file, targetDimension) ==
    [kind    |-> "padded",
     name    |-> file.name,
     type    |-> "image/jpeg",
     width   |-> targetDimension,
     height  |-> targetDimension,
     content |-> ResizeGeometry(file.width, file.height, targetDimension),
     encodings |-> 1,
     marker  |-> None]

\* line 228: Math.max(5, Math.min(canvas.width, canvas.height) * 0.015)
MarkerRadius(smaller) == RatMax(FromInt(5), RatTimes(FromInt(smaller), Rat(15, 1000)))

\* the marker placed at the position inside the content, the offset left out
Marker_NoOffset(position, geom, canvasWidth, canvasHeight) ==
    LET smaller == IF canvasWidth < canvasHeight THEN canvasWidth ELSE canvasHeight
    IN  [kind    |-> "marker",
         content |-> geom,
         x      |-> RatTimes(Rat(position.xPercent, 100), geom.width),
         y      |-> RatTimes(Rat(position.yPercent, 100), geom.height),
         radius |-> MarkerRadius(smaller),
         lineWidth |-> RatTimes(MarkerRadius(smaller), Rat(2, 10))]

\* markImage, lines 215-235: the marker's centre, radius and outline width on the canvas
Marker(position, geom, canvasWidth, canvasHeight) ==
    LET markerXInContent == RatTimes(Rat(position.xPercent, 100), geom.width)
        markerYInContent == RatTimes(Rat(position.yPercent, 100), geom.height)
        smaller          == IF canvasWidth < canvasHeight THEN canvasWidth ELSE canvasHeight
    IN  [kind    |-> "marker",
         content |-> geom,
         x      |-> RatPlus(geom.x, markerXInContent),
         y      |-> RatPlus(geom.y, markerYInContent),
         radius |-> MarkerRadius(smaller),
         lineWidth |-> RatTimes(MarkerRadius(smaller), Rat(2, 10))]

\* markImage, lines 170-250, on success: a new file, the padded one is left alone.
\* The canvas holding the decoded padded image and the marker is encoded as JPEG
\* again (lines 239-248), one more lossy encoding of every pixel.
markImage(paddedSquareFile, position, originalDimensions) ==
    LET targetDimension == paddedSquareFile.width
        geom == MarkGeometry(originalDimensions.originalWidth,
                             originalDimensions.originalHeight, targetDimension)
    IN  [kind    |-> "padded",
         name    |-> "marked-" \o paddedSquareFile.name,
         type    |-> "image/jpeg",
         width   |-> paddedSquareFile.width,
         height  |-> paddedSquareFile.height,
         content |-> paddedSquareFile.content,
         encodings |-> paddedSquareFile.encodings + 1,
         marker  |-> Marker(position, geom, paddedSquareFile.width, paddedSquareFile.height)]

\* fileToPart, lines 141-157
fileToPart(file) == [kind |-> "inlineData", mimeType |-> file.type, data |-> file]

\* fileToDataUrl, lines 160-167
fileToDataUrl(file) == [kind |-> "dataUrl", mimeType |-> file.type, data |-> file]

\* a prompt that names the surface generically whatever the description
CompositionPrompt_Generic(description) ==
    <<"Role: interior design visualizer",
      "Tile Pattern to apply: repeating texture",
      "Scene to use",
      "Placement Instruction: apply to the entire continuous surface",
      "Target Surface Description:",
      "at the specified location on the most prominent surface.",
      "Final Image Requirements: preserve existing objects",
      "The output should ONLY be the final, composed image.">>

\* lines 332-352: the composition prompt, as its fixed sections around the description
CompositionPrompt(description) ==
    <<"Role: interior design visualizer",
      "Tile Pattern to apply: repeating texture",
      "Scene to use",
      "Placement Instruction: apply to the entire continuous surface",
      "Target Surface Description:",
      TemplateString(description),
      "Final Image Requirements: preserve existing objects",
      "The output should ONLY be the final, composed image.">>

\* position of the description inside the prompt
DescriptionSlot == 6

\* line 365: parts?.find(part => part.inlineData)
RECURSIVE FindImagePart(_)
FindImagePart(parts) ==
    IF parts = <<>> THEN None
    ELSE IF Head(parts).kind = "inlineData" THEN Head(parts)
    ELSE FindImagePart(Tail(parts))

\* only the first part of the response is looked at
imagePartFromResponse_FirstPartOnly(resp) ==
    IF resp.candidates /\ resp.parts # <<>> /\ Head(resp.parts).kind = "inlineData"
    THEN Head(resp.parts) ELSE None

\* line 365: response.candidates?.[0]?.content?.parts?.find(...)
imagePartFromResponse(resp) ==
    IF resp.candidates THEN FindImagePart(resp.parts) ELSE None

\* cropToOriginalAspectRatio, lines 30-73, on success
cropToOriginalAspectRatio(imageDataUrl, originalWidth, originalHeight, targetDimension) ==
    LET geom == CropGeometry(originalWidth, originalHeight, targetDimension)
    IN  [kind     |-> "dataUrl",
         mimeType |-> "image/jpeg",
         data     |-> [kind   |-> "cropped",
                       source |-> imageDataUrl.data,
                       rect   |-> geom,
                       width  |-> Truncate(geom.width),
                       height |-> Truncate(geom.height)]]

(***************************************************************************)
(* State of one invocation of generateCompositeImage (lines 264-385)       *)
(***************************************************************************)
VARIABLES
    pc,                             \* the step the invocation has completed
    visited,                        \* the steps completed so far, in order
    objectImage,                    \* argument: the product file
    environmentImage,               \* argument: the scene file
    dropPosition,                   \* argument: {xPercent, yPercent}
    applicationType,                \* the sixth argument the caller passes (App.tsx:138)
    original,                       \* line 275: {originalWidth, originalHeight}
    resizedObjectImage,             \* line 282
    resizedEnvironmentImage,        \* line 283
    markedResizedEnvironmentImage,  \* line 288
    debugImageUrl,                  \* line 291
    descriptionRequest,             \* the image part sent to the description call
    descriptionResponse,            \* how the description call settled
    semanticLocationDescription,    \* lines 312-324
    prompt,                         \* line 332: the composition prompt
    compositionRequest,             \* the parts sent to the composition call
    compositionCalls,               \* number of composition calls issued
    response,                       \* line 358: the composition response
    cropCall,                       \* the arguments of cropToOriginalAspectRatio
    finalImageUrl,                  \* line 373
    result,                         \* the value the promise resolves to
    error,                          \* the error the promise rejects with
    failedStep,                     \* the step that rejected
    geomArgs,                       \* geometry harness: (w, h, target)
    geomOut,                        \* geometry harness: the rectangles computed
    calls,                          \* overlapping invocations: the locals of each
    app,                            \* App.tsx: the state of the App component (lines 61-79)
    applies,                        \* App.tsx: the executions of handleProductApply
    placement                       \* ImageUploader: a click handled by handlePlacement

pipelineVars ==
    <<pc, visited, objectImage, environmentImage, dropPosition, applicationType, original,
      resizedObjectImage, resizedEnvironmentImage, markedResizedEnvironmentImage,
      debugImageUrl, descriptionRequest, descriptionResponse,
      semanticLocationDescription, prompt, compositionRequest, compositionCalls,
      response, cropCall, finalImageUrl, result, error, failedStep>>

geomVars == <<geomArgs, geomOut>>

concVars == <<calls>>

appVars == <<app, applies, placement>>

vars == <<pipelineVars, geomVars, concVars, appVars>>

\* the invocations of generateCompositeImage that overlap in time
Invocations == {1, 2}

\* the locals of an invocation that has not been called yet
IdleCall ==
    [pc                            |-> "Idle",
     objectImage                   |-> None,
     environmentImage              |-> None,
     dropPosition                  |-> None,
     original                      |-> None,
     resizedObjectImage            |-> None,
     resizedEnvironmentImage       |-> None,
     markedResizedEnvironmentImage |-> None,
     debugImageUrl                 |-> None,
     descriptionResponse           |-> None,
     semanticLocationDescription   |-> None,
     prompt                        |-> None,
     response                      |-> None,
     result                        |-> None,
     error                         |-> None]

\* the executions of handleProductApply that are told apart
Applies == {1, 2}

\* an execution of handleProductApply that has not started: no click yet
UnusedApply ==
    [phase            |-> "Unused",
     selectedProduct  |-> None,
     sceneImage       |-> None,
     history          |-> <<>>,
     historyIndex     |-> -1,
     position         |-> None,
     relativePosition |-> None]

\* App.tsx lines 61-79: the initial values of the useState hooks (null is None);
\* defaultSceneFetch is the fetch of handleInstantStart (lines 97-99), not started
InitialAppState ==
    [sceneImage           |-> None,
     selectedProduct      |-> None,
     isLoading            |-> FALSE,
     error                |-> None,
     history              |-> <<>>,
     historyIndex         |-> -1,
     persistedOrbPosition |-> None,
     debugImageUrl        |-> None,
     debugPrompt          |-> None,
     defaultSceneFetch    |-> "Idle"]

\* the App component after its first render, nothing clicked yet
AppMounted ==
    /\ app = InitialAppState
    /\ applies = [i \in Applies |-> UnusedApply]
    /\ placement = None

\* the state before generateCompositeImage is called
PipelineIdle ==
    /\ pc = "Idle"
    /\ visited = <<>>
    /\ objectImage = None
    /\ environmentImage = None
    /\ dropPosition = None
    /\ applicationType = None
    /\ original = None
    /\ resizedObjectImage = None
    /\ resizedEnvironmentImage = None
    /\ markedResizedEnvironmentImage = None
    /\ debugImageUrl = None
    /\ descriptionRequest = None
    /\ descriptionResponse = None
    /\ semanticLocationDescription = None
    /\ prompt = None
    /\ compositionRequest = None
    /\ compositionCalls = 0
    /\ response = None
    /\ cropCall = None
    /\ finalImageUrl = None
    /\ result = None
    /\ error = None
    /\ failedStep = None

Init ==
    /\ PipelineIdle
    /\ geomArgs = None
    /\ geomOut = None
    /\ calls = [i \in Invocations |-> IdleCall]
    /\ AppMounted

\* a step rejects: the promise of generateCompositeImage rejects with message
Reject(step, message) ==
    /\ pc' = "Failed"
    /\ failedStep' = [kind |-> "step", name |-> step]
    /\ error' = [kind |-> "Error", message |-> message]

Advance(step) ==
    /\ pc' = step
    /\ visited' = Append(visited, step)

\* lines 264-272: the call
Invoke(objectDims, sceneDims, xPercent, yPercent, mode) ==
    /\ pc = "Idle"
    /\ Advance("Start")
    /\ objectImage' = SourceFile("product", objectDims)
    /\ environmentImage' = SourceFile("scene", sceneDims)
    /\ dropPosition' = [xPercent |-> xPercent, yPercent |-> yPercent]
    /\ applicationType' = [kind |-> "applicationType", value |-> mode]
    /\ UNCHANGED <<original, resizedObjectImage, resizedEnvironmentImage,
                   markedResizedEnvironmentImage, debugImageUrl, descriptionRequest,
                   descriptionResponse, semanticLocationDescription,
                   prompt, compositionRequest, compositionCalls, response, cropCall,
                   finalImageUrl, result, error, failedStep>>
    /\ UNCHANGED <<geomVars, concVars, appVars>>

\* line 275, getImageDimensions resolves
GetImageDimensionsOk ==
    /\ pc = "Start"
    /\ Advance("DimensionsRead")
    /\ original' = LET d == getImageDimensions(environmentImage)
                   IN  [originalWidth |-> d.width, originalHeight |-> d.height]
    /\ UNCHANGED <<objectImage, environmentImage, dropPosition, applicationType,
                   resizedObjectImage, resizedEnvironmentImage,
                   markedResizedEnvironmentImage, debugImageUrl, descriptionRequest,
                   descriptionResponse, semanticLocationDescription,
                   prompt, compositionRequest, compositionCalls, response, cropCall,
                   finalImageUrl, result, error, failedStep>>
    /\ UNCHANGED <<geomVars, concVars, appVars>>

\* line 275, getImageDimensions rejects (lines 16, 23, 25)
GetImageDimensionsFail ==
    /\ pc = "Start"
    /\ Reject("DimensionsRead", "Image load error")
    /\ UNCHANGED <<visited, objectImage, environmentImage, dropPosition,
                   applicationType, original,
                   resizedObjectImage, resizedEnvironmentImage,
                   markedResizedEnvironmentImage, debugImageUrl, descriptionRequest,
                   descriptionResponse, semanticLocationDescription,
                   prompt, compositionRequest, compositionCalls, response, cropCall,
                   finalImageUrl, result>>
    /\ UNCHANGED <<geomVars, concVars, appVars>>

\* lines 282-283, both resizeImage calls resolve
ResizeImagesOk ==
    /\ pc = "DimensionsRead"
    /\ Advance("Resized")
    /\ resizedObjectImage' = resizeImage(objectImage, MAX_DIMENSION)
    /\ resizedEnvironmentImage' = resizeImage(environmentImage, MAX_DIMENSION)
    /\ UNCHANGED <<objectImage, environmentImage, dropPosition, applicationType, original,
                   markedResizedEnvironmentImage, debugImageUrl, descriptionRequest,
                   descriptionResponse, semanticLocationDescription,
                   prompt, compositionRequest, compositionCalls, response, cropCall,
                   finalImageUrl, result, error, failedStep>>
    /\ UNCHANGED <<geomVars, concVars, appVars>>

\* lines 282-283, a resizeImage call rejects (lines 85, 96, 130, 134, 136)
ResizeImagesFail ==
    /\ pc = "DimensionsRead"
    /\ Reject("Resized", "Canvas to Blob conversion failed.")
    /\ UNCHANGED <<visited, objectImage, environmentImage, dropPosition,
                   applicationType, original,
                   resizedObjectImage, resizedEnvironmentImage,
                   markedResizedEnvironmentImage, debugImageUrl, descriptionRequest,
                   descriptionResponse, semanticLocationDescription,
                   prompt, compositionRequest, compositionCalls, response, cropCall,
                   finalImageUrl, result>>
    /\ UNCHANGED <<geomVars, concVars, appVars>>

\* lines 288-291, markImage and fileToDataUrl resolve
MarkImageOk ==
    /\ pc = "Resized"
    /\ Advance("Marked")
    /\ markedResizedEnvironmentImage' =
           markImage(resizedEnvironmentImage, dropPosition, original)
    /\ debugImageUrl' = fileToDataUrl(markedResizedEnvironmentImage')
    /\ UNCHANGED <<objectImage, environmentImage, dropPosition, applicationType, original,
                   resizedObjectImage, resizedEnvironmentImage, descriptionRequest,
                   descriptionResponse, semanticLocationDescription,
                   prompt, compositionRequest, compositionCalls, response, cropCall,
                   finalImageUrl, result, error, failedStep>>
    /\ UNCHANGED <<geomVars, concVars, appVars>>

\* lines 288-291, markImage rejects (lines 180, 192, 242, 246, 248) or
\* fileToDataUrl rejects (line 165)
MarkImageFail ==
    /\ pc = "Resized"
    /\ Reject("Marked", "Canvas to Blob conversion failed during marking.")
    /\ UNCHANGED <<visited, objectImage, environmentImage, dropPosition,
                   applicationType, original,
                   resizedObjectImage, resizedEnvironmentImage,
                   markedResizedEnvironmentImage, debugImageUrl, descriptionRequest,
                   descriptionResponse, semanticLocationDescription,
                   prompt, compositionRequest, compositionCalls, response, cropCall,
                   finalImageUrl, result>>
    /\ UNCHANGED <<geomVars, concVars, appVars>>

\* line 291 as data, line 297: the marked image as the part of the description request
markedEnvironmentImagePart == fileToPart(markedResizedEnvironmentImage)

\* lines 299-310 and 316: the contents of the description request
DescriptionContents ==
    [kind |-> "contents",
     parts |-> <<[kind |-> "text", text |-> "descriptionPrompt"],
                 markedEnvironmentImagePart>>]

\* line 297, fileToPart of the marked image rejects (lines 146, 150, 152)
DescribeEncodeFail ==
    /\ pc = "Marked"
    /\ Reject("Described", "Invalid data URL")
    /\ UNCHANGED <<visited, objectImage, environmentImage, dropPosition,
                   applicationType, original,
                   resizedObjectImage, resizedEnvironmentImage,
                   markedResizedEnvironmentImage, debugImageUrl, descriptionRequest,
                   descriptionResponse, semanticLocationDescription,
                   prompt, compositionRequest, compositionCalls, response, cropCall,
                   finalImageUrl, result>>
    /\ UNCHANGED <<geomVars, concVars, appVars>>

\* the description call issued on the padded scene without waiting for markImage
DescribeOk_BeforeMark(text) ==
    /\ pc = "Resized"
    /\ Advance("Described")
    /\ descriptionRequest' =
           [kind |-> "contents",
            parts |-> <<[kind |-> "text", text |-> "descriptionPrompt"],
                        fileToPart(resizedEnvironmentImage)>>]
    /\ descriptionResponse' = [kind |-> "returned", text |-> text]
    /\ semanticLocationDescription' = text
    /\ UNCHANGED <<objectImage, environmentImage, dropPosition, applicationType, original,
                   resizedObjectImage, resizedEnvironmentImage,
                   markedResizedEnvironmentImage, debugImageUrl,
                   prompt, compositionRequest, compositionCalls, response, cropCall,
                   finalImageUrl, result, error, failedStep>>
    /\ UNCHANGED <<geomVars, concVars, appVars>>

\* lines 313-319, the description call returns text
DescribeOk(text) ==
    /\ pc = "Marked"
    /\ Advance("Described")
    /\ descriptionRequest' = DescriptionContents
    /\ descriptionResponse' = [kind |-> "returned", text |-> text]
    /\ semanticLocationDescription' = text
    /\ UNCHANGED <<objectImage, environmentImage, dropPosition, applicationType, original,
                   resizedObjectImage, resizedEnvironmentImage,
                   markedResizedEnvironmentImage, debugImageUrl,
                   prompt, compositionRequest, compositionCalls, response, cropCall,
                   finalImageUrl, result, error, failedStep>>
    /\ UNCHANGED <<geomVars, concVars, appVars>>

\* the catch block leaves the description at its initial value ''
DescribeThrows_EmptyFallback ==
    /\ pc = "Marked"
    /\ Advance("Described")
    /\ descriptionRequest' = DescriptionContents
    /\ descriptionResponse' = [kind |-> "threw"]
    /\ semanticLocationDescription' = Str("")
    /\ UNCHANGED <<objectImage, environmentImage, dropPosition, applicationType, original,
                   resizedObjectImage, resizedEnvironmentImage,
                   markedResizedEnvironmentImage, debugImageUrl,
                   prompt, compositionRequest, compositionCalls, response, cropCall,
                   finalImageUrl, result, error, failedStep>>
    /\ UNCHANGED <<geomVars, concVars, appVars>>

\* the description call without its try/catch
DescribeThrows_Uncaught ==
    /\ pc = "Marked"
    /\ descriptionRequest' = DescriptionContents
    /\ descriptionResponse' = [kind |-> "threw"]
    /\ Reject("Described", "description call failed")
    /\ UNCHANGED <<visited, objectImage, environmentImage, dropPosition,
                   applicationType, original,
                   resizedObjectImage, resizedEnvironmentImage,
                   markedResizedEnvironmentImage, debugImageUrl,
                   semanticLocationDescription,
                   prompt, compositionRequest, compositionCalls, response, cropCall,
                   finalImageUrl, result>>
    /\ UNCHANGED <<geomVars, concVars, appVars>>

\* lines 313-324, the description call throws and the catch block runs
DescribeThrows ==
    /\ pc = "Marked"
    /\ Advance("Described")
    /\ descriptionRequest' = DescriptionContents
    /\ descriptionResponse' = [kind |-> "threw"]
    /\ semanticLocationDescription' = Str(FallbackDescription)
    /\ UNCHANGED <<objectImage, environmentImage, dropPosition, applicationType, original,
                   resizedObjectImage, resizedEnvironmentImage,
                   markedResizedEnvironmentImage, debugImageUrl,
                   prompt, compositionRequest, compositionCalls, response, cropCall,
                   finalImageUrl, result, error, failedStep>>
    /\ UNCHANGED <<geomVars, concVars, appVars>>

\* line 329
objectImagePart == fileToPart(resizedObjectImage)

\* the marked image in the place of the clean one
cleanEnvironmentImagePart_Marked == fileToPart(markedResizedEnvironmentImage)

\* line 330
cleanEnvironmentImagePart == fileToPart(resizedEnvironmentImage)

\* lines 354-361: the contents of the composition request
CompositionContents(promptText) ==
    [kind |-> "contents",
     parts |-> <<objectImagePart, cleanEnvironmentImagePart,
                 [kind |-> "text", text |-> promptText]>>]

\* lines 329-330, fileToPart rejects before the composition call is issued
ComposeEncodeFail ==
    /\ pc = "Described"
    /\ Reject("Composed", "Invalid data URL")
    /\ UNCHANGED <<visited, objectImage, environmentImage, dropPosition,
                   applicationType, original,
                   resizedObjectImage, resizedEnvironmentImage,
                   markedResizedEnvironmentImage, debugImageUrl, descriptionRequest,
                   descriptionResponse, semanticLocationDescription,
                   prompt, compositionRequest, compositionCalls, response, cropCall,
                   finalImageUrl, result>>
    /\ UNCHANGED <<geomVars, concVars, appVars>>

\* lines 329-361, the composition call returns a response
CompositionReturns(resp) ==
    /\ pc = "Described"
    /\ Advance("Composed")
    /\ prompt' = CompositionPrompt(semanticLocationDescription)
    /\ compositionRequest' = CompositionContents(prompt')
    /\ compositionCalls' = compositionCalls + 1
    /\ response' = resp
    /\ UNCHANGED <<objectImage, environmentImage, dropPosition, applicationType, original,
                   resizedObjectImage, resizedEnvironmentImage,
                   markedResizedEnvironmentImage, debugImageUrl, descriptionRequest,
                   descriptionResponse, semanticLocationDescription, cropCall,
                   finalImageUrl, result, error, failedStep>>
    /\ UNCHANGED <<geomVars, concVars, appVars>>

\* lines 329-361, the composition call throws: nothing catches it
CompositionThrows ==
    /\ pc = "Described"
    /\ prompt' = CompositionPrompt(semanticLocationDescription)
    /\ compositionRequest' = CompositionContents(prompt')
    /\ compositionCalls' = compositionCalls + 1
    /\ Reject("Composed", "composition call failed")
    /\ UNCHANGED <<visited, objectImage, environmentImage, dropPosition,
                   applicationType, original,
                   resizedObjectImage, resizedEnvironmentImage,
                   markedResizedEnvironmentImage, debugImageUrl, descriptionRequest,
                   descriptionResponse, semanticLocationDescription, response,
                   cropCall, finalImageUrl, result>>
    /\ UNCHANGED <<geomVars, concVars, appVars>>

\* a missing image part answered by issuing the composition call again
NoImagePart_Retry ==
    /\ pc = "Composed"
    /\ imagePartFromResponse(response) = None
    /\ compositionCalls < 2
    /\ compositionCalls' = compositionCalls + 1
    /\ \E resp \in Responses : response' = resp
    /\ UNCHANGED <<pc, visited, objectImage, environmentImage, dropPosition,
                   applicationType, original,
                   resizedObjectImage, resizedEnvironmentImage,
                   markedResizedEnvironmentImage, debugImageUrl, descriptionRequest,
                   descriptionResponse, semanticLocationDescription,
                   prompt, compositionRequest, cropCall,
                   finalImageUrl, result, error, failedStep>>
    /\ UNCHANGED <<geomVars, concVars, appVars>>

\* lines 365-367 and 383-384: the response has no image part
NoImagePart ==
    /\ pc = "Composed"
    /\ imagePartFromResponse(response) = None
    /\ Reject("Composed", "The AI model did not return an image. Please try again.")
    /\ UNCHANGED <<visited, objectImage, environmentImage, dropPosition,
                   applicationType, original,
                   resizedObjectImage, resizedEnvironmentImage,
                   markedResizedEnvironmentImage, debugImageUrl, descriptionRequest,
                   descriptionResponse, semanticLocationDescription,
                   prompt, compositionRequest, compositionCalls, response, cropCall,
                   finalImageUrl, result>>
    /\ UNCHANGED <<geomVars, concVars, appVars>>

\* line 370: the data URL of the image part
generatedSquareImageUrl ==
    LET part == imagePartFromResponse(response)
    IN  [kind |-> "dataUrl", mimeType |-> part.mimeType, data |-> part.data]

\* the crop given the dimensions of the image the model returned
CropArguments_FromGenerated ==
    [kind            |-> "cropCall",
     imageDataUrl    |-> generatedSquareImageUrl,
     originalWidth   |-> generatedSquareImageUrl.data.width,
     originalHeight  |-> generatedSquareImageUrl.data.height,
     targetDimension |-> MAX_DIMENSION]

\* lines 373-378: the arguments of the crop
CropArguments ==
    [kind            |-> "cropCall",
     imageDataUrl    |-> generatedSquareImageUrl,
     originalWidth   |-> original.originalWidth,
     originalHeight  |-> original.originalHeight,
     targetDimension |-> MAX_DIMENSION]

\* lines 367-378, the image part is found and the crop resolves
CropOk ==
    /\ pc = "Composed"
    /\ imagePartFromResponse(response) # None
    /\ Advance("Cropped")
    /\ cropCall' = CropArguments
    /\ finalImageUrl' = cropToOriginalAspectRatio(cropCall'.imageDataUrl,
                            cropCall'.originalWidth, cropCall'.originalHeight,
                            cropCall'.targetDimension)
    /\ UNCHANGED <<objectImage, environmentImage, dropPosition, applicationType, original,
                   resizedObjectImage, resizedEnvironmentImage,
                   markedResizedEnvironmentImage, debugImageUrl, descriptionRequest,
                   descriptionResponse, semanticLocationDescription,
                   prompt, compositionRequest, compositionCalls, response,
                   result, error, failedStep>>
    /\ UNCHANGED <<geomVars, concVars, appVars>>

\* lines 367-378, the crop rejects (lines 62, 71)
CropFail ==
    /\ pc = "Composed"
    /\ imagePartFromResponse(response) # None
    /\ cropCall' = CropArguments
    /\ Reject("Cropped", "Image load error during cropping")
    /\ UNCHANGED <<visited, objectImage, environmentImage, dropPosition,
                   applicationType, original,
                   resizedObjectImage, resizedEnvironmentImage,
                   markedResizedEnvironmentImage, debugImageUrl, descriptionRequest,
                   descriptionResponse, semanticLocationDescription,
                   prompt, compositionRequest, compositionCalls, response,
                   finalImageUrl, result>>
    /\ UNCHANGED <<geomVars, concVars, appVars>>

\* the clean padded scene returned as the debug image
Return_CleanDebug ==
    /\ pc = "Cropped"
    /\ Advance("Done")
    /\ result' = [kind          |-> "result",
                  finalImageUrl |-> finalImageUrl,
                  debugImageUrl |-> fileToDataUrl(resizedEnvironmentImage),
                  finalPrompt   |-> prompt]
    /\ UNCHANGED <<objectImage, environmentImage, dropPosition, applicationType, original,
                   resizedObjectImage, resizedEnvironmentImage,
                   markedResizedEnvironmentImage, debugImageUrl, descriptionRequest,
                   descriptionResponse, semanticLocationDescription,
                   prompt, compositionRequest, compositionCalls, response, cropCall,
                   finalImageUrl, error, failedStep>>
    /\ UNCHANGED <<geomVars, concVars, appVars>>

\* line 380
Return ==
    /\ pc = "Cropped"
    /\ Advance("Done")
    /\ result' = [kind          |-> "result",
                  finalImageUrl |-> finalImageUrl,
                  debugImageUrl |-> debugImageUrl,
                  finalPrompt   |-> prompt]
    /\ UNCHANGED <<objectImage, environmentImage, dropPosition, applicationType, original,
                   resizedObjectImage, resizedEnvironmentImage,
                   markedResizedEnvironmentImage, debugImageUrl, descriptionRequest,
                   descriptionResponse, semanticLocationDescription,
                   prompt, compositionRequest, compositionCalls, response, cropCall,
                   finalImageUrl, error, failedStep>>
    /\ UNCHANGED <<geomVars, concVars, appVars>>

(***************************************************************************)
(* The geometry on its own: every (w, h, target) of the bounded sets       *)
(***************************************************************************)
Targets == (1..MaxTarget) \cup {MAX_DIMENSION}

GeomInit ==
    /\ PipelineIdle
    /\ geomArgs \in {[kind |-> "args", w |-> d[1], h |-> d[2], t |-> t] :
                        d \in GeometryDims, t \in Targets}
    /\ geomOut = [resize |-> None, mark |-> None, marked |-> None,
                  crop |-> None, cropped |-> None]
    /\ calls = [i \in Invocations |-> IdleCall]
    /\ AppMounted

\* resizeImage pads a w x h image to the target
GeomResize ==
    /\ geomOut.resize = None
    /\ geomOut' = [geomOut EXCEPT !.resize =
           resizeImage(SourceFile("scene", <<geomArgs.w, geomArgs.h>>), geomArgs.t).content]
    /\ UNCHANGED <<geomArgs, pipelineVars, concVars, appVars>>

\* the positions marked on their own: the corners, the centre, interior points
MarkPercents == {0, 25, 50, 100}

\* markImage marks a position of the padded image
GeomMark(xPercent, yPercent) ==
    /\ geomOut.mark = None
    /\ LET padded   == resizeImage(SourceFile("scene", <<geomArgs.w, geomArgs.h>>),
                                   geomArgs.t)
           position == [xPercent |-> xPercent, yPercent |-> yPercent]
           marked   == markImage(padded, position,
                           [originalWidth |-> geomArgs.w, originalHeight |-> geomArgs.h])
       IN  geomOut' = [geomOut EXCEPT !.mark = marked.marker.content,
                                      !.marked = [position |-> position,
                                                  marker   |-> marked.marker]]
    /\ UNCHANGED <<geomArgs, pipelineVars, concVars, appVars>>

\* cropToOriginalAspectRatio crops a target x target image
GeomCrop ==
    /\ geomOut.crop = None
    /\ LET cropped == cropToOriginalAspectRatio(
                          [kind |-> "dataUrl", mimeType |-> "image/png",
                           data |-> ImagePart(1, geomArgs.t).data],
                          geomArgs.w, geomArgs.h, geomArgs.t).data
       IN  geomOut' = [geomOut EXCEPT !.crop = cropped.rect,
                                      !.cropped = [width  |-> cropped.width,
                                                   height |-> cropped.height]]
    /\ UNCHANGED <<geomArgs, pipelineVars, concVars, appVars>>

GeomNext ==
    \/ GeomResize
    \/ \E x \in MarkPercents, y \in MarkPercents : GeomMark(x, y)
    \/ GeomCrop

GeomSpec == GeomInit /\ [][GeomNext]_vars

Next ==
    \/ \E o \in ProductDims, s \in SceneDims, p \in DropPositions,
          mode \in ApplicationTypes :
           Invoke(o, s, p[1], p[2], mode)
    \/ GetImageDimensionsOk
    \/ GetImageDimensionsFail
    \/ ResizeImagesOk
    \/ ResizeImagesFail
    \/ MarkImageOk
    \/ MarkImageFail
    \/ DescribeEncodeFail
    \/ \E text \in DescriptionTexts : DescribeOk(text)
    \/ DescribeThrows
    \/ ComposeEncodeFail
    \/ \E resp \in Responses : CompositionReturns(resp)
    \/ CompositionThrows
    \/ NoImagePart
    \/ CropOk
    \/ CropFail
    \/ Return

Spec == Init /\ [][Next]_vars



(***************************************************************************)
(* Properties                                                              *)
(***************************************************************************)
StepOrder ==
    <<"Start", "DimensionsRead", "Resized", "Marked", "Described",
      "Composed", "Cropped", "Done">>

IsPrefix(p, q) == Len(p) <= Len(q) /\ \A i \in 1..Len(p) : p[i] = q[i]

InPrompt(text, p) == \E i \in 1..Len(p) : p[i] = text

IsMarked(file) == file.marker # None

\* the image parts among the parts of a request
ImagesOf(contents) ==
    {contents.parts[i].data : i \in {j \in 1..Len(contents.parts) :
                                        contents.parts[j].kind = "inlineData"}}

NoImageMessage == "The AI model did not return an image. Please try again."

\* C1: the scene sent to the composition call is the unmarked padded scene that
\* resizeImage produced; the marked image goes to the description call and into
\* the returned debug image only, and is never an input of the composition call.
C1_CleanSceneToComposition ==
    /\ compositionRequest # None =>
          /\ compositionRequest.parts[2].kind = "inlineData"
          /\ compositionRequest.parts[2].data = resizedEnvironmentImage
          /\ ~IsMarked(compositionRequest.parts[2].data)
          /\ \A img \in ImagesOf(compositionRequest) :
                 ~IsMarked(img) /\ img # markedResizedEnvironmentImage
    /\ descriptionRequest # None =>
          /\ ImagesOf(descriptionRequest) = {markedResizedEnvironmentImage}
          /\ IsMarked(markedResizedEnvironmentImage)
    /\ result # None => result.debugImageUrl.data = markedResizedEnvironmentImage

C1_Witness ==
    /\ pc = "Done"
    /\ IsMarked(result.debugImageUrl.data)
    /\ compositionRequest.parts[2].data = resizedEnvironmentImage

\* C2: when the description call throws, the invocation does not fail for it: the
\* description becomes the fixed fallback, the composition call is issued with a
\* prompt that contains the fallback phrase, a response with an image part leads
\* to the crop (only the crop itself can still reject), and the prompt returned
\* at Done contains the fallback phrase.
C2_DescriptionFailureFallsBack ==
    (descriptionResponse # None /\ descriptionResponse.kind = "threw") =>
        /\ semanticLocationDescription = Str(FallbackDescription)
        /\ pc \in {"Described", "Composed", "Cropped", "Done", "Failed"}
        /\ pc = "Failed" => failedStep.name \in {"Composed", "Cropped"}
        /\ (pc = "Failed" /\ response # None /\ imagePartFromResponse(response) # None)
               => failedStep.name = "Cropped"
        /\ compositionRequest # None =>
               InPrompt(FallbackDescription, compositionRequest.parts[3].text)
        /\ pc = "Done" =>
               /\ result # None
               /\ InPrompt(FallbackDescription, result.finalPrompt)

C2_Witness ==
    /\ pc = "Done"
    /\ descriptionResponse.kind = "threw"
    /\ InPrompt(FallbackDescription, result.finalPrompt)

\* C3: when the description call returns an empty string or no text, the
\* description embedded in the composition prompt is the fixed fallback string.
C3_EmptyDescriptionReplaced ==
    (/\ prompt # None
     /\ descriptionResponse.kind = "returned"
     /\ descriptionResponse.text \in {Str(""), Undefined})
        => prompt[DescriptionSlot] = FallbackDescription

\* C4: a composition response without an image part makes the invocation fail
\* with the no-image error, no result reaches the caller, and the composition
\* call was issued exactly once (never more than once in any invocation).
C4_NoImageIsFatal ==
    /\ compositionCalls <= 1
    /\ (response # None /\ imagePartFromResponse(response) = None /\ pc # "Composed") =>
          /\ pc = "Failed"
          /\ error.message = NoImageMessage
          /\ failedStep.name = "Composed"
          /\ result = None
          /\ finalImageUrl = None
          /\ compositionCalls = 1
    /\ pc = "Failed" => result = None

C4_Witness ==
    /\ pc = "Failed"
    /\ response # None
    /\ response.candidates
    /\ Len(response.parts) > 0
    /\ error.message = NoImageMessage

\* C5 as stated: Failed is entered only at DimensionsRead, Resized, Composed or
\* Cropped; neither marking nor the description step aborts the invocation.
C5_FailedOnlyFromFourSteps ==
    pc = "Failed" =>
        failedStep.name \in {"DimensionsRead", "Resized", "Composed", "Cropped"}

\* C5 amended: Failed is entered at any of the steps DimensionsRead, Resized,
\* Marked, Described, Composed or Cropped, but never by the description model
\* call: a failure of the Described step happens before the call is issued
\* (encoding the marked image), and once the call has been issued, whether it
\* returned or threw, the invocation can fail only at Composed or Cropped.
C5_DescriptionCallNeverFails ==
    pc = "Failed" =>
        /\ failedStep.name \in {"DimensionsRead", "Resized", "Marked", "Described",
                                "Composed", "Cropped"}
        /\ failedStep.name = "Described" =>
               descriptionRequest = None /\ descriptionResponse = None
        /\ descriptionRequest # None => failedStep.name \in {"Composed", "Cropped"}

C5_Witness ==
    /\ pc = "Failed"
    /\ descriptionResponse # None
    /\ descriptionResponse.kind = "threw"
    /\ failedStep.name = "Composed"

\* C6: the steps are completed in the fixed order Start, DimensionsRead, Resized,
\* Marked, Described, Composed, Cropped, Done, none skipped, repeated or
\* reordered; the description call is issued only once the marked image exists
\* and the crop is called only once the composition response is there.
C6_FixedStepOrder ==
    /\ IsPrefix(visited, StepOrder)
    /\ pc = "Done" => visited = StepOrder
    /\ pc \notin {"Idle", "Failed"} => pc = visited[Len(visited)]
    /\ descriptionRequest # None =>
          /\ markedResizedEnvironmentImage # None
          /\ IsPrefix(SubSeq(StepOrder, 1, 4), visited)
    /\ cropCall # None =>
          /\ response # None
          /\ IsPrefix(SubSeq(StepOrder, 1, 6), visited)

C6_Witness ==
    /\ pc = "Done"
    /\ visited = StepOrder
    /\ descriptionResponse.kind = "returned"

\* C7: the composition call is issued only after the description step has
\* resolved, and its prompt embeds the resolved description: the text the
\* description call returned, or the fixed fallback string when it threw.
C7_PromptEmbedsResolvedDescription ==
    compositionRequest # None =>
        /\ descriptionResponse # None
        /\ IsPrefix(SubSeq(StepOrder, 1, 5), visited)
        /\ compositionRequest.parts[3].text = prompt
        /\ descriptionResponse.kind = "threw" =>
               prompt[DescriptionSlot] = FallbackDescription
        /\ descriptionResponse.kind = "returned" =>
               prompt[DescriptionSlot] = TemplateString(descriptionResponse.text)

C7_Witness ==
    /\ compositionRequest # None
    /\ descriptionResponse.kind = "returned"
    /\ descriptionResponse.text = Str("the wooden floor")
    /\ prompt[DescriptionSlot] = "the wooden floor"

\* C8: the crop is called with the width and height of the scene file read at
\* the start of the invocation and with the target the scene was padded to,
\* not with a dimension of the padded, marked or model-returned image.
C8_CropUsesOriginalDimensions ==
    /\ cropCall # None =>
          /\ cropCall.originalWidth = environmentImage.width
          /\ cropCall.originalHeight = environmentImage.height
          /\ cropCall.originalWidth = original.originalWidth
          /\ cropCall.originalHeight = original.originalHeight
          /\ cropCall.targetDimension = resizedEnvironmentImage.width
    /\ finalImageUrl # None =>
          finalImageUrl.data.rect =
              CropGeometry(environmentImage.width, environmentImage.height,
                           resizedEnvironmentImage.width)

C8_Witness ==
    /\ pc = "Done"
    /\ cropCall.imageDataUrl.data.width # cropCall.originalWidth
    /\ cropCall.imageDataUrl.data.width # cropCall.targetDimension
    /\ environmentImage.width # environmentImage.height

\* the content rectangle as {contentWidth, contentHeight, offsetX, offsetY}
Rectangle(g) ==
    [contentWidth |-> g.width, contentHeight |-> g.height,
     offsetX |-> g.x, offsetY |-> g.y]

\* C9: within one invocation the content rectangle computed by resizeImage for
\* the scene, by markImage and by cropToOriginalAspectRatio is the same.
C9_SameContentRectangle ==
    /\ markedResizedEnvironmentImage # None =>
          Rectangle(markedResizedEnvironmentImage.marker.content)
              = Rectangle(resizedEnvironmentImage.content)
    /\ finalImageUrl # None =>
          /\ Rectangle(finalImageUrl.data.rect)
                 = Rectangle(resizedEnvironmentImage.content)
          /\ Rectangle(finalImageUrl.data.rect)
                 = Rectangle(markedResizedEnvironmentImage.marker.content)

C9_Witness ==
    /\ pc = "Done"
    /\ environmentImage.width > environmentImage.height
    /\ finalImageUrl.data.rect.y # FromInt(0)
    /\ finalImageUrl.data.rect = markedResizedEnvironmentImage.marker.content

InRange(a, lo, hi) == RatLeq(FromInt(lo), a) /\ RatLeq(a, FromInt(hi))

GeometryInBounds(g, target) ==
    /\ InRange(g.x, 0, target)
    /\ InRange(g.y, 0, target)
    /\ RatMax(g.width, g.height) = FromInt(target)

\* C10: for all w, h > 0 and target > 0 the geometry of resizeImage and of
\* cropToOriginalAspectRatio has 0 <= offsetX <= target, 0 <= offsetY <= target
\* and max(contentWidth, contentHeight) = target.
C10_GeometryInBounds ==
    (geomArgs # None /\ geomArgs.w > 0 /\ geomArgs.h > 0) =>
        /\ geomOut.resize # None => GeometryInBounds(geomOut.resize, geomArgs.t)
        /\ geomOut.crop # None => GeometryInBounds(geomOut.crop, geomArgs.t)

C10_Witness ==
    /\ geomArgs # None
    /\ geomArgs.w > geomArgs.h
    /\ geomOut.resize # None
    /\ geomOut.crop # None
    /\ RatGreater(geomOut.crop.y, FromInt(0))

\* exactly one of contentWidth = target and contentHeight = target
ExactlyOneTouches(g, target) ==
    (g.width = FromInt(target)) # (g.height = FromInt(target))

\* at least one touches, and both touch exactly when the original is square
TouchesLongerAxis(g, w, h, target) ==
    /\ g.width = FromInt(target) \/ g.height = FromInt(target)
    /\ (g.width = FromInt(target) /\ g.height = FromInt(target)) <=> (w = h)
    /\ w > h => g.width = FromInt(target)
    /\ w < h => g.height = FromInt(target)

\* C11 as stated: for all w, h > 0 and target > 0 exactly one of
\* contentWidth = target and contentHeight = target holds in the geometry of
\* cropToOriginalAspectRatio and of markImage, for square inputs too.
C11_ExactlyOneAxisTouches ==
    (geomArgs # None /\ geomArgs.w > 0 /\ geomArgs.h > 0) =>
        /\ geomOut.crop # None => ExactlyOneTouches(geomOut.crop, geomArgs.t)
        /\ geomOut.mark # None => ExactlyOneTouches(geomOut.mark, geomArgs.t)

\* C11 amended: for all w, h > 0 and target > 0 at least one of
\* contentWidth = target and contentHeight = target holds (the width for w > h,
\* the height for w < h); exactly one holds when w # h, and both hold when w = h.
C11_LongerAxisTouches ==
    (geomArgs # None /\ geomArgs.w > 0 /\ geomArgs.h > 0) =>
        /\ geomOut.crop # None =>
               TouchesLongerAxis(geomOut.crop, geomArgs.w, geomArgs.h, geomArgs.t)
        /\ geomOut.mark # None =>
               TouchesLongerAxis(geomOut.mark, geomArgs.w, geomArgs.h, geomArgs.t)

C11_Witness ==
    /\ geomArgs # None
    /\ geomArgs.w = geomArgs.h
    /\ geomArgs.w > 0
    /\ geomOut.crop # None
    /\ geomOut.mark # None
    /\ geomOut.crop.width = geomOut.crop.height

PercentInRange(v) == 0 <= v /\ v <= 100

PositionInRange(position) ==
    PercentInRange(position.xPercent) /\ PercentInRange(position.yPercent)

\* C12: a drop position with xPercent or yPercent outside [0, 100] is rejected
\* with InvalidPosition before a marker is drawn or a model call is made: no
\* marked image exists, no request is sent, and the invocation does not get
\* past the marking step.
C12_InvalidPositionRejected ==
    (dropPosition # None /\ ~PositionInRange(dropPosition)) =>
        /\ markedResizedEnvironmentImage = None
        /\ descriptionRequest = None
        /\ compositionRequest = None
        /\ pc \in {"Start", "DimensionsRead", "Resized", "Failed"}

InvalidImageDimensions == [kind |-> "error", name |-> "InvalidImageDimensions"]

\* C13: when the original width or height is 0, the geometry computation of
\* resizeImage, markImage and cropToOriginalAspectRatio fails with
\* InvalidImageDimensions: no rectangle is produced from a division by zero.
C13_ZeroDimensionsRejected ==
    (geomArgs # None /\ (geomArgs.w = 0 \/ geomArgs.h = 0)) =>
        /\ geomOut.resize # None => geomOut.resize = InvalidImageDimensions
        /\ geomOut.mark # None => geomOut.mark = InvalidImageDimensions
        /\ geomOut.crop # None => geomOut.crop = InvalidImageDimensions

\* lines 341-343: the clause that applies the product as a repeating texture
TileClause == "Placement Instruction: apply to the entire continuous surface"

\* the clause that places the product as one discrete object
SingleClause == "Placement Instruction: place as a single discrete object"

\* C14: the composition prompt carries the clause of the placement mode the
\* caller asked for: the Tile clause for 'tile', the Single clause and never
\* the Tile clause for a product whose applicationType is 'single'.
C14_PromptFollowsPlacementMode ==
    prompt # None =>
        /\ applicationType.value = "tile" =>
               InPrompt(TileClause, prompt) /\ ~InPrompt(SingleClause, prompt)
        /\ applicationType.value = "single" =>
               InPrompt(SingleClause, prompt) /\ ~InPrompt(TileClause, prompt)

\* C15: when the square image the composition call returned is smaller than
\* the target in width or in height, the crop step fails (MalformedModelOutput)
\* and no final image is produced.
C15_SmallModelImageRejected ==
    (/\ cropCall # None
     /\ \/ cropCall.imageDataUrl.data.width < cropCall.targetDimension
        \/ cropCall.imageDataUrl.data.height < cropCall.targetDimension)
        => /\ finalImageUrl = None
           /\ result = None
           /\ pc = "Failed"

\* the integer nearest to a non-negative rational (halves round up)
Round(a) == (2 * a.n + a.d) \div (2 * a.d)

\* k is the integer part of the non-negative rational a: k <= a < k + 1
IsIntegerPart(k, a) == k * a.d <= a.n /\ a.n < (k + 1) * a.d

\* C16 as stated: the final cropped image is round(contentWidth) pixels wide and
\* round(contentHeight) pixels high, for the geometry of (w, h, target).
C16_CropSizeIsRounded ==
    finalImageUrl # None =>
        LET geom == CropGeometry(environmentImage.width, environmentImage.height,
                                 MAX_DIMENSION)
        IN  /\ finalImageUrl.data.width = Round(geom.width)
            /\ finalImageUrl.data.height = Round(geom.height)

\* C16 amended: the final cropped image is floor(contentWidth) pixels wide and
\* floor(contentHeight) pixels high (the fraction is dropped, not rounded), for
\* the geometry of (w, h, target) with w, h > 0.
C16_CropSizeIsTruncated ==
    finalImageUrl # None =>
        LET geom == CropGeometry(environmentImage.width, environmentImage.height,
                                 MAX_DIMENSION)
        IN  /\ IsIntegerPart(finalImageUrl.data.width, geom.width)
            /\ IsIntegerPart(finalImageUrl.data.height, geom.height)

C16_Witness ==
    /\ finalImageUrl # None
    /\ environmentImage.width > environmentImage.height
    /\ finalImageUrl.data.height # Round(finalImageUrl.data.rect.height)
    /\ finalImageUrl.data.width = MAX_DIMENSION

\* the images sent to the description call and to the composition call
SentImages ==
    (IF descriptionRequest = None THEN {} ELSE ImagesOf(descriptionRequest))
    \cup (IF compositionRequest = None THEN {} ELSE ImagesOf(compositionRequest))

\* C17: every image passed to a model call (the marked scene to the description
\* call, the padded product and padded scene to the composition call) is
\* exactly 1024 x 1024 pixels, whatever the sizes of the source images.
C17_ModelInputsAreTargetSquares ==
    /\ \A img \in SentImages :
           img.width = MAX_DIMENSION /\ img.height = MAX_DIMENSION
    /\ descriptionRequest # None => Cardinality(ImagesOf(descriptionRequest)) = 1
    /\ compositionRequest # None =>
          /\ compositionRequest.parts[1].kind = "inlineData"
          /\ compositionRequest.parts[1].data.width = MAX_DIMENSION
          /\ compositionRequest.parts[1].data.height = MAX_DIMENSION
          /\ compositionRequest.parts[2].kind = "inlineData"
          /\ compositionRequest.parts[2].data.width = MAX_DIMENSION
          /\ compositionRequest.parts[2].data.height = MAX_DIMENSION

C17_Witness ==
    /\ compositionRequest # None
    /\ descriptionRequest # None
    /\ environmentImage.width < environmentImage.height
    /\ environmentImage.height # MAX_DIMENSION
    /\ objectImage.width # objectImage.height
    /\ \A img \in SentImages : img.width = MAX_DIMENSION

\* C18: on success the result matches what was sent: debugImage is the marked
\* scene that went to the description call, and promptUsed is the instruction
\* text that went to the composition call.
C18_ResultMatchesWhatWasSent ==
    result # None =>
        /\ pc = "Done"
        /\ descriptionRequest # None
        /\ ImagesOf(descriptionRequest) = {result.debugImageUrl.data}
        /\ compositionRequest # None
        /\ compositionRequest.parts[3].kind = "text"
        /\ result.finalPrompt = compositionRequest.parts[3].text

C18_Witness ==
    /\ result # None
    /\ result.finalPrompt[DescriptionSlot] = "the wooden floor"
    /\ result.debugImageUrl.data \in ImagesOf(descriptionRequest)
    /\ IsMarked(result.debugImageUrl.data)

SceneIs(w, h) == environmentImage.width = w /\ environmentImage.height = h

IntRectangle(cw, ch, ox, oy) ==
    [contentWidth |-> FromInt(cw), contentHeight |-> FromInt(ch),
     offsetX |-> FromInt(ox), offsetY |-> FromInt(oy)]

\* C20: with target 1024, a 1600x900 scene has contentWidth 1024, contentHeight
\* 576, offsetX 0, offsetY 224, and a drop at {50, 50} puts the marker centre at
\* square pixel {512, 512}; a 900x1600 scene has contentWidth 576, contentHeight
\* 1024, offsetX 224, offsetY 0.
C20_ReferenceScenes ==
    markedResizedEnvironmentImage # None =>
        LET marker == markedResizedEnvironmentImage.marker
        IN  /\ SceneIs(1600, 900) =>
                  /\ markedResizedEnvironmentImage.width = 1024
                  /\ Rectangle(marker.content) = IntRectangle(1024, 576, 0, 224)
                  /\ (dropPosition.xPercent = 50 /\ dropPosition.yPercent = 50) =>
                         marker.x = FromInt(512) /\ marker.y = FromInt(512)
            /\ SceneIs(900, 1600) =>
                  /\ markedResizedEnvironmentImage.width = 1024
                  /\ Rectangle(marker.content) = IntRectangle(576, 1024, 224, 0)

C20_Witness ==
    /\ markedResizedEnvironmentImage # None
    /\ SceneIs(1600, 900)
    /\ dropPosition = [xPercent |-> 50, yPercent |-> 50]
    /\ markedResizedEnvironmentImage.marker.y = FromInt(512)
    /\ markedResizedEnvironmentImage.marker.content.y = FromInt(224)


(***************************************************************************)
(* Two invocations of generateCompositeImage that overlap in time. Each    *)
(* keeps its locals in calls[i]; an invocation runs from one model call    *)
(* (or file read) it awaits to the next while the other one is suspended.  *)
(***************************************************************************)
ConcSceneDims == {<<2, 1>>, <<1, 2>>}

ConcDropPositions == {<<0, 0>>, <<50, 50>>}

ConcResponses ==
    {[candidates |-> TRUE, parts |-> <<TextPart>>],
     [candidates |-> TRUE, parts |-> <<ImagePart(1, MAX_DIMENSION)>>],
     [candidates |-> TRUE, parts |-> <<TextPart, ImagePart(2, MAX_DIMENSION)>>]}

ConcInit ==
    /\ PipelineIdle
    /\ geomArgs = None
    /\ geomOut = None
    /\ calls = [i \in Invocations |-> IdleCall]
    /\ AppMounted

ConcFrame == UNCHANGED <<pipelineVars, geomVars, appVars>>

\* lines 264-317: the call, up to the description request being issued
ConcInvoke(i, sceneDims, position) ==
    /\ calls[i].pc = "Idle"
    /\ LET objectFile == SourceFile("product", <<1, 1>>)
           sceneFile  == SourceFile("scene", sceneDims)
           dims       == getImageDimensions(sceneFile)
           orig       == [originalWidth |-> dims.width, originalHeight |-> dims.height]
           pos        == [xPercent |-> position[1], yPercent |-> position[2]]
           resized    == resizeImage(sceneFile, MAX_DIMENSION)
           marked     == markImage(resized, pos, orig)
       IN  calls' = [calls EXCEPT ![i] =
               [@ EXCEPT !.pc = "AwaitDescription",
                         !.objectImage = objectFile,
                         !.environmentImage = sceneFile,
                         !.dropPosition = pos,
                         !.original = orig,
                         !.resizedObjectImage = resizeImage(objectFile, MAX_DIMENSION),
                         !.resizedEnvironmentImage = resized,
                         !.markedResizedEnvironmentImage = marked,
                         !.debugImageUrl = fileToDataUrl(marked)]]
    /\ ConcFrame

\* lines 275-297: one of the image steps before the description call rejects
ConcPrepareFails(i, sceneDims, position) ==
    /\ calls[i].pc = "Idle"
    /\ calls' = [calls EXCEPT ![i] =
           [@ EXCEPT !.pc = "Failed",
                     !.environmentImage = SourceFile("scene", sceneDims),
                     !.dropPosition = [xPercent |-> position[1], yPercent |-> position[2]],
                     !.error = [kind |-> "Error", message |-> "Image load error"]]]
    /\ ConcFrame

\* the description kept in one variable that every invocation reads and writes
ConcDescriptionReturns_Shared(i, text) ==
    /\ calls[i].pc = "AwaitDescription"
    /\ calls' = [j \in Invocations |->
           IF j = i
           THEN [calls[j] EXCEPT !.pc = "Encoding",
                                 !.descriptionResponse = [kind |-> "returned", text |-> text],
                                 !.semanticLocationDescription = text]
           ELSE [calls[j] EXCEPT !.semanticLocationDescription = text]]
    /\ ConcFrame

\* lines 313-319: the description call of invocation i returns
ConcDescriptionReturns(i, text) ==
    /\ calls[i].pc = "AwaitDescription"
    /\ calls' = [calls EXCEPT ![i] =
           [@ EXCEPT !.pc = "Encoding",
                     !.descriptionResponse = [kind |-> "returned", text |-> text],
                     !.semanticLocationDescription = text]]
    /\ ConcFrame

\* lines 313-324: the description call of invocation i throws
ConcDescriptionThrows(i) ==
    /\ calls[i].pc = "AwaitDescription"
    /\ calls' = [calls EXCEPT ![i] =
           [@ EXCEPT !.pc = "Encoding",
                     !.descriptionResponse = [kind |-> "threw"],
                     !.semanticLocationDescription = Str(FallbackDescription)]]
    /\ ConcFrame

\* lines 329-361: the parts are encoded, the prompt is built, the call is issued
ConcIssueComposition(i) ==
    /\ calls[i].pc = "Encoding"
    /\ calls' = [calls EXCEPT ![i] =
           [@ EXCEPT !.pc = "AwaitComposition",
                     !.prompt = CompositionPrompt(calls[i].semanticLocationDescription)]]
    /\ ConcFrame

\* lines 329-330: fileToPart rejects
ConcEncodeFails(i) ==
    /\ calls[i].pc = "Encoding"
    /\ calls' = [calls EXCEPT ![i] =
           [@ EXCEPT !.pc = "Failed",
                     !.error = [kind |-> "Error", message |-> "Invalid data URL"]]]
    /\ ConcFrame

\* lines 358-384: the composition call of invocation i returns; crop and return,
\* or throw when the response has no image part
ConcCompositionReturns(i, resp) ==
    /\ calls[i].pc = "AwaitComposition"
    /\ LET part == imagePartFromResponse(resp)
           url  == [kind |-> "dataUrl", mimeType |-> part.mimeType, data |-> part.data]
       IN  calls' = [calls EXCEPT ![i] =
               IF part = None
               THEN [@ EXCEPT !.pc = "Failed",
                              !.response = resp,
                              !.error = [kind |-> "Error", message |->
                                  "The AI model did not return an image. Please try again."]]
               ELSE [@ EXCEPT !.pc = "Done",
                              !.response = resp,
                              !.result =
                                  [kind          |-> "result",
                                   finalImageUrl |-> cropToOriginalAspectRatio(url,
                                       calls[i].original.originalWidth,
                                       calls[i].original.originalHeight, MAX_DIMENSION),
                                   debugImageUrl |-> calls[i].debugImageUrl,
                                   finalPrompt   |-> calls[i].prompt]]]
    /\ ConcFrame

\* lines 358-361: the composition call of invocation i throws
ConcCompositionThrows(i) ==
    /\ calls[i].pc = "AwaitComposition"
    /\ calls' = [calls EXCEPT ![i] =
           [@ EXCEPT !.pc = "Failed",
                     !.error = [kind |-> "Error", message |-> "composition call failed"]]]
    /\ ConcFrame

ConcNext ==
    \E i \in Invocations :
        \/ \E d \in ConcSceneDims, p \in ConcDropPositions : ConcInvoke(i, d, p)
        \/ \E d \in ConcSceneDims, p \in ConcDropPositions : ConcPrepareFails(i, d, p)
        \/ \E text \in DescriptionTexts : ConcDescriptionReturns(i, text)
        \/ ConcDescriptionThrows(i)
        \/ ConcIssueComposition(i)
        \/ ConcEncodeFails(i)
        \/ \E resp \in ConcResponses : ConcCompositionReturns(i, resp)
        \/ ConcCompositionThrows(i)

ConcSpec == ConcInit /\ [][ConcNext]_vars

\* what an invocation returns when it runs alone with these arguments and
\* these answers of the two model calls
ResultAlone(sceneFile, position, described, resp) ==
    LET resized == resizeImage(sceneFile, MAX_DIMENSION)
        marked  == markImage(resized, position,
                       [originalWidth |-> sceneFile.width,
                        originalHeight |-> sceneFile.height])
        text    == IF described.kind = "threw" THEN Str(FallbackDescription)
                   ELSE described.text
        part    == imagePartFromResponse(resp)
    IN  [kind          |-> "result",
         finalImageUrl |-> cropToOriginalAspectRatio(
                               [kind |-> "dataUrl", mimeType |-> part.mimeType,
                                data |-> part.data],
                               sceneFile.width, sceneFile.height, MAX_DIMENSION),
         debugImageUrl |-> fileToDataUrl(marked),
         finalPrompt   |-> CompositionPrompt(text)]

\* C19: two invocations that overlap share no mutable state: whatever the
\* interleaving, the result of each (final image, debug image, prompt) is the
\* one its own arguments and its own model responses give, and an invocation
\* that has not finished has no result.
C19_InvocationsAreIndependent ==
    \A i \in Invocations :
        /\ calls[i].pc = "Done" =>
               calls[i].result = ResultAlone(calls[i].environmentImage,
                                     calls[i].dropPosition,
                                     calls[i].descriptionResponse, calls[i].response)
        /\ calls[i].pc # "Done" => calls[i].result = None
        /\ calls[i].prompt # None =>
               calls[i].prompt[DescriptionSlot] =
                   (IF calls[i].descriptionResponse.kind = "threw"
                    THEN FallbackDescription
                    ELSE TemplateString(calls[i].descriptionResponse.text))

C19_Witness ==
    /\ calls[1].pc = "Done"
    /\ calls[2].pc = "Done"
    /\ calls[1].environmentImage # calls[2].environmentImage
    /\ calls[1].dropPosition # calls[2].dropPosition
    /\ calls[1].descriptionResponse.kind = "returned"
    /\ calls[2].descriptionResponse.kind = "threw"
    /\ calls[1].result # calls[2].result

(***************************************************************************)
(* What marking changes                                                    *)
(***************************************************************************)
\* how far from its centre the marker paints: the radius of the filled disc
\* plus the half of the outline that lies outside it (lines 232-237)
MarkerReach(m) == RatPlus(m.radius, RatDivide(m.lineWidth, FromInt(2)))

\* C21: markImage never mutates the padded image it is given (after marking
\* the padded scene is still the file resizeImage produced, unmarked), and
\* the marked image differs from it only at pixels within the marker's reach
\* of the mapped centre: same size, same content rectangle, and every pixel
\* outside the marker is the padded image's pixel, not a re-encoded one.
C21_MarkingChangesOnlyMarkerRegion ==
    markedResizedEnvironmentImage # None =>
        LET padded == resizedEnvironmentImage
            marked == markedResizedEnvironmentImage
        IN  /\ padded = resizeImage(environmentImage, MAX_DIMENSION)
            /\ ~IsMarked(padded)
            /\ marked.width = padded.width
            /\ marked.height = padded.height
            /\ marked.content = padded.content
            /\ RatLeq(MarkerReach(marked.marker), FromInt(padded.width))
            /\ marked.encodings = padded.encodings

(***************************************************************************)
(* Round trips of the geometry                                             *)
(***************************************************************************)
\* k is the number a with its fraction dropped or rounded to the nearest
\* integer: less than one pixel away from a
WithinOnePixel(k, a) == (k - 1) * a.d < a.n /\ a.n < (k + 1) * a.d

\* the rectangle has the proportions w : h
HasAspect(g, w, h) == RatTimes(g.width, FromInt(h)) = RatTimes(g.height, FromInt(w))

\* C22: padding a w x h image and cropping the square with the same
\* original dimensions and target recovers the padded content rectangle: the
\* crop rectangle is the one the padding drew into, its width : height is
\* w : h, and the pixel size of the cropped image is that rectangle's size up
\* to integer rounding, for landscape, portrait and square inputs.
C22_PadThenCropRecoversAspect ==
    (/\ geomArgs.w > 0 /\ geomArgs.h > 0
     /\ geomOut.resize # None /\ geomOut.crop # None) =>
        /\ Rectangle(geomOut.crop) = Rectangle(geomOut.resize)
        /\ HasAspect(geomOut.crop, geomArgs.w, geomArgs.h)
        /\ WithinOnePixel(geomOut.cropped.width, geomOut.crop.width)
        /\ WithinOnePixel(geomOut.cropped.height, geomOut.crop.height)

\* a portrait image padded and cropped, the recovered height a whole number
\* of pixels and the recovered width not
C22_Witness ==
    /\ geomArgs.w = 2 /\ geomArgs.h = 3 /\ geomArgs.t = MAX_DIMENSION
    /\ geomOut.resize # None /\ geomOut.crop # None
    /\ geomOut.cropped.height = MAX_DIMENSION
    /\ geomOut.cropped.width = 682
    /\ geomOut.crop.width # FromInt(682)

RatAbs(a) == [n |-> Abs(a.n), d |-> a.d]

\* the geometric inverse of the marker mapping along one axis
InversePercent(pixel, offset, contentSize) ==
    RatTimes(RatDivide(RatMinus(pixel, offset), contentSize), FromInt(100))

\* the distance on the square, in pixels, between two percentages of a content size
PixelDistance(p, q, contentSize) ==
    RatTimes(RatDivide(RatAbs(RatMinus(p, q)), FromInt(100)), contentSize)

RecoversWithinOnePixel(pixel, offset, contentSize, percent) ==
    RatLeq(PixelDistance(InversePercent(pixel, offset, contentSize),
                         FromInt(percent), contentSize),
           FromInt(1))

\* C23: the mapping from a percentage of the content to a pixel of the square
\* is invertible: for every position in [0,100] x [0,100] (0%, 50%, 100% and
\* interior points) and every geometry with w, h > 0, applying
\* (pixel - offset) / contentSize * 100 to the marker's centre, and to the
\* whole pixel that centre falls in, recovers the percentage to within one pixel.
C23_MarkerMappingInvertible ==
    (geomArgs.w > 0 /\ geomArgs.h > 0 /\ geomOut.marked # None) =>
        LET m == geomOut.marked.marker
            p == geomOut.marked.position
            g == m.content
        IN  /\ RecoversWithinOnePixel(m.x, g.x, g.width, p.xPercent)
            /\ RecoversWithinOnePixel(m.y, g.y, g.height, p.yPercent)
            /\ RecoversWithinOnePixel(FromInt(Truncate(m.x)), g.x, g.width, p.xPercent)
            /\ RecoversWithinOnePixel(FromInt(Truncate(m.y)), g.y, g.height, p.yPercent)

\* an interior point of a letterboxed landscape scene, mapped below the top margin
C23_Witness ==
    /\ geomArgs.w = 2 /\ geomArgs.h = 1 /\ geomArgs.t = MAX_DIMENSION
    /\ geomOut.marked # None
    /\ geomOut.marked.position = [xPercent |-> 25, yPercent |-> 100]
    /\ geomOut.marked.marker.x = FromInt(256)
    /\ geomOut.marked.marker.y = FromInt(768)

(***************************************************************************)
(* Which part of the composition response becomes the final image          *)
(***************************************************************************)
ImageIndexes(parts) == {i \in 1..Len(parts) : parts[i].kind = "inlineData"}

\* the first part, in response order, that carries an image payload
FirstImagePart(parts) ==
    parts[CHOOSE i \in ImageIndexes(parts) : \A j \in ImageIndexes(parts) : i <= j]

\* C24: when the composition response has several parts, the final image is
\* cropped from the first part, in response order, that carries an image:
\* text parts before it do not make the invocation fail for a missing image
\* (that failure happens only when no part carries an image), and image parts
\* after it are ignored.
C24_FirstImagePartIsUsed ==
    /\ (pc \in {"Cropped", "Done"}) =>
           /\ ImageIndexes(response.parts) # {}
           /\ cropCall.imageDataUrl.data = FirstImagePart(response.parts).data
           /\ finalImageUrl.data.source = FirstImagePart(response.parts).data
    /\ (pc = "Failed" /\ error.message = NoImageMessage) =>
           (~response.candidates \/ ImageIndexes(response.parts) = {})

\* a text part, then the image that is used, then an image that is ignored
C24_Witness ==
    /\ pc = "Done"
    /\ Len(response.parts) = 3
    /\ response.parts[1].kind = "text"
    /\ response.parts[3].kind = "inlineData"
    /\ result.finalImageUrl.data.source = response.parts[2].data
    /\ response.parts[3].data # response.parts[2].data

(***************************************************************************)
(* ImageUploader (src/unnamed/part_000): the translation of a click on the  *)
(* container into a position relative to the rendered image                *)
(***************************************************************************)
\* lines 61-99: None when the handler returns at line 92, else the two
\* arguments of onSurfaceClick (line 98)
handlePlacement(clientX, clientY, containerRect, naturalWidth, naturalHeight) ==
    LET containerWidth       == FromInt(containerRect.width)
        containerHeight      == FromInt(containerRect.height)
        imageAspectRatio     == Rat(naturalWidth, naturalHeight)
        containerAspectRatio == RatDivide(containerWidth, containerHeight)
        wider          == RatGreater(imageAspectRatio, containerAspectRatio)
        renderedWidth  == IF wider THEN containerWidth
                          ELSE RatTimes(containerHeight, imageAspectRatio)
        renderedHeight == IF wider THEN RatDivide(containerWidth, imageAspectRatio)
                          ELSE containerHeight
        offsetX == RatDivide(RatMinus(containerWidth, renderedWidth), FromInt(2))
        offsetY == RatDivide(RatMinus(containerHeight, renderedHeight), FromInt(2))
        pointX  == clientX - containerRect.left
        pointY  == clientY - containerRect.top
        imageX  == RatMinus(FromInt(pointX), offsetX)
        imageY  == RatMinus(FromInt(pointY), offsetY)
    IN  IF \/ RatGreater(FromInt(0), imageX)
           \/ RatGreater(imageX, renderedWidth)
           \/ RatGreater(FromInt(0), imageY)
           \/ RatGreater(imageY, renderedHeight)
        THEN None
        ELSE [kind             |-> "surfaceClick",
              position         |-> [x |-> pointX, y |-> pointY],
              relativePosition |->
                  [xPercent |-> RatTimes(RatDivide(imageX, renderedWidth), FromInt(100)),
                   yPercent |-> RatTimes(RatDivide(imageY, renderedHeight), FromInt(100))]]

\* the bounding rectangles of the container tried, both 16 : 9 (aspect-video)
ContainerRects ==
    {[left |-> 0, top |-> 0, width |-> 32, height |-> 18],
     [left |-> 8, top |-> 9, width |-> 16, height |-> 9]}

\* naturalWidth and naturalHeight of the img element: the sizes of decoded
\* images, and 0 x 0 while the image has not loaded or cannot be decoded
NaturalDims == {<<0, 0>>, <<2, 1>>, <<1, 1>>, <<1, 2>>, <<16, 9>>}

ClientXs == {0, 8, 16, 24, 32, 40}

ClientYs == {0, 9, 13, 18, 25}

\* a click about to be handled
PlacementInit ==
    /\ PipelineIdle
    /\ geomArgs = None
    /\ geomOut = None
    /\ calls = [i \in Invocations |-> IdleCall]
    /\ app = InitialAppState
    /\ applies = [i \in Applies |-> UnusedApply]
    /\ placement \in {[kind          |-> "click",
                       clientX       |-> x,
                       clientY       |-> y,
                       containerRect |-> c,
                       naturalWidth  |-> d[1],
                       naturalHeight |-> d[2],
                       handled       |-> FALSE,
                       emitted       |-> None] :
                          x \in ClientXs, y \in ClientYs, c \in ContainerRects,
                          d \in NaturalDims}

PlacementOutcome ==
    handlePlacement(placement.clientX, placement.clientY, placement.containerRect,
                    placement.naturalWidth, placement.naturalHeight)

\* lines 90-93: the click is outside the image, nothing is emitted
PlacementIgnored ==
    /\ ~placement.handled
    /\ PlacementOutcome = None
    /\ placement' = [placement EXCEPT !.handled = TRUE]
    /\ UNCHANGED <<pipelineVars, geomVars, concVars, app, applies>>

\* lines 95-98: onSurfaceClick is called with the position
PlacementEmitted ==
    /\ ~placement.handled
    /\ PlacementOutcome # None
    /\ placement' = [placement EXCEPT !.handled = TRUE, !.emitted = PlacementOutcome]
    /\ UNCHANGED <<pipelineVars, geomVars, concVars, app, applies>>

PlacementNext == PlacementIgnored \/ PlacementEmitted

PlacementSpec == PlacementInit /\ [][PlacementNext]_vars

\* the click, relative to the container, lies on the image drawn by
\* object-contain: scaled by the smaller of the two ratios and centred
OnRenderedImage(click) ==
    /\ click.naturalWidth > 0
    /\ click.naturalHeight > 0
    /\ LET cw    == FromInt(click.containerRect.width)
           ch    == FromInt(click.containerRect.height)
           sx    == RatDivide(cw, FromInt(click.naturalWidth))
           sy    == RatDivide(ch, FromInt(click.naturalHeight))
           scale == IF RatGreater(sx, sy) THEN sy ELSE sx
           rw    == RatTimes(FromInt(click.naturalWidth), scale)
           rh    == RatTimes(FromInt(click.naturalHeight), scale)
           left  == RatDivide(RatMinus(cw, rw), FromInt(2))
           top   == RatDivide(RatMinus(ch, rh), FromInt(2))
           px    == FromInt(click.clientX - click.containerRect.left)
           py    == FromInt(click.clientY - click.containerRect.top)
       IN  /\ RatLeq(left, px) /\ RatLeq(px, RatPlus(left, rw))
           /\ RatLeq(top, py) /\ RatLeq(py, RatPlus(top, rh))

\* C25: every relative position ImageUploader passes to onSurfaceClick has
\* xPercent and yPercent in [0, 100] relative to the rendered image, and a
\* click outside the rendered image (in the letterbox margin of the
\* container) emits no position.
C25_EmittedPositionsInRange ==
    placement.handled =>
        /\ placement.emitted # None =>
               /\ InRange(placement.emitted.relativePosition.xPercent, 0, 100)
               /\ InRange(placement.emitted.relativePosition.yPercent, 0, 100)
        /\ ~OnRenderedImage(placement) => placement.emitted = None

(***************************************************************************)
(* The App component (src/App.tsx): its state, the handlers the rendered   *)
(* view offers, and the executions of handleProductApply, each suspended   *)
(* at its two awaits (the product fetch, generateCompositeImage). A        *)
(* handler runs to its next await as one step; React re-renders between    *)
(* steps, so a handler sees the state of the render it was created in.     *)
(***************************************************************************)
\* files the user can pick or drop as the scene
UploadedScenes == {SourceFile("room", <<2, 1>>)}

\* line 100: the file built from /assets/scene.jpeg
DefaultScene == SourceFile("scene.jpeg", <<1, 1>>)

\* DEFAULT_PRODUCTS, lines 40-53: the product the user selects
Products == {[id |-> 1, name |-> "Ceramic Subway Tile", applicationType |-> "tile"]}

\* the bounding rectangle of the uploader's container and the points clicked
AppContainer == [left |-> 0, top |-> 0, width |-> 32, height |-> 18]

ClickPoints == {<<16, 9>>, <<1, 9>>}

\* renderContent, lines 253-371: which of the three views is rendered
ErrorView == app.error # None

UploadView == app.error = None /\ app.sceneImage = None

MainView == app.error = None /\ app.sceneImage # None

\* line 339: isPlacementMode={!!selectedProduct && !isLoading}
isPlacementMode == app.selectedProduct # None /\ ~app.isLoading

\* lines 180-185 applied to a state
resetProductState(state) ==
    [state EXCEPT !.selectedProduct = None,
                  !.persistedOrbPosition = None,
                  !.debugImageUrl = None,
                  !.debugPrompt = None]

\* lines 86-92 applied to a state
SceneUploaded(state, file) ==
    resetProductState([state EXCEPT !.sceneImage = file,
                                    !.history = <<file>>,
                                    !.historyIndex = 0])

\* handleSceneUpload, lines 86-92, called by the uploader (file picker, lines
\* 48-59, or drop, lines 128-140), which both views without an error render
handleSceneUpload(file) ==
    /\ app.error = None
    /\ app' = SceneUploaded(app, file)
    /\ UNCHANGED <<applies, placement, pipelineVars, geomVars, concVars>>

\* the click on a product card, line 316
setSelectedProduct(product) ==
    /\ MainView
    /\ app' = [app EXCEPT !.selectedProduct = product]
    /\ UNCHANGED <<applies, placement, pipelineVars, geomVars, concVars>>

\* naturalWidth and naturalHeight of the img element showing a scene file
\* (part_000 line 66): the size of an uploaded image, and for a generated
\* scene the size cropToOriginalAspectRatio gave the final image
RECURSIVE naturalSize(_)
naturalSize(file) ==
    IF file.kind = "generatedFile"
    THEN LET of      == naturalSize(file.source)
             cropped == cropToOriginalAspectRatio(
                            [kind |-> "dataUrl", mimeType |-> "image/png",
                             data |-> ImagePart(file.call, MAX_DIMENSION).data],
                            of[1], of[2], MAX_DIMENSION).data
         IN  <<cropped.width, cropped.height>>
    ELSE <<file.width, file.height>>

\* the first execution of handleProductApply not used yet
NextApply(i) ==
    /\ applies[i].phase = "Unused"
    /\ \A j \in Applies : j < i => applies[j].phase # "Unused"

\* handleClick, lines 101-107, on the scene in the main view: in placement
\* mode handlePlacement translates the click and calls handleProductApply,
\* which runs up to the product fetch (lines 109-118); otherwise the file
\* picker opens
SurfaceClick(i, point) ==
    /\ MainView
    /\ NextApply(i)
    /\ LET natural == naturalSize(app.sceneImage)
           out     == handlePlacement(point[1], point[2], AppContainer,
                                      natural[1], natural[2])
       IN  IF isPlacementMode /\ out # None
           THEN IF app.selectedProduct = None \/ app.sceneImage = None
                THEN /\ app' = [app EXCEPT !.error =
                             Str("Please select a product before clicking on the scene.")]
                     /\ UNCHANGED applies
                ELSE /\ applies' = [applies EXCEPT ![i] =
                             [phase            |-> "Fetching",
                              selectedProduct  |-> app.selectedProduct,
                              sceneImage       |-> app.sceneImage,
                              history          |-> app.history,
                              historyIndex     |-> app.historyIndex,
                              position         |-> out.position,
                              relativePosition |-> out.relativePosition]]
                     /\ UNCHANGED app
           ELSE UNCHANGED <<app, applies>>
    /\ UNCHANGED <<placement, pipelineVars, geomVars, concVars>>

\* lines 118-129: the product image is fetched; the orb is pinned, the
\* loading state is set and generateCompositeImage is called
ProductFetched(i) ==
    /\ applies[i].phase = "Fetching"
    /\ applies' = [applies EXCEPT ![i].phase = "Generating"]
    /\ app' = [app EXCEPT !.persistedOrbPosition = applies[i].position,
                          !.isLoading = TRUE,
                          !.error = None]
    /\ UNCHANGED <<placement, pipelineVars, geomVars, concVars>>

\* lines 121-125: the product image cannot be fetched
ProductFetchFails(i) ==
    /\ applies[i].phase = "Fetching"
    /\ applies' = [applies EXCEPT ![i].phase = "FetchFailed"]
    /\ app' = [app EXCEPT !.error =
                   Str("Could not load the selected product image. Please try again.")]
    /\ UNCHANGED <<placement, pipelineVars, geomVars, concVars>>

\* line 144: the file made from the final image that execution i gets for
\* the scene it passed to generateCompositeImage
newSceneFile(i) ==
    [kind   |-> "generatedFile",
     name   |-> "generated-scene",
     call   |-> i,
     source |-> applies[i].sceneImage]

\* a completion that appends to the whole history, the redo entries kept
CompositionResolves_KeepsRedo(i) ==
    /\ applies[i].phase = "Generating"
    /\ applies' = [applies EXCEPT ![i].phase = "Succeeded"]
    /\ LET newHistory == Append(applies[i].history, newSceneFile(i))
       IN  app' = [app EXCEPT !.debugImageUrl = [kind |-> "debugImage", call |-> i],
                              !.debugPrompt = [kind |-> "finalPrompt", call |-> i],
                              !.history = newHistory,
                              !.historyIndex = Len(newHistory) - 1,
                              !.sceneImage = newSceneFile(i),
                              !.isLoading = FALSE,
                              !.persistedOrbPosition = None]
    /\ UNCHANGED <<placement, pipelineVars, geomVars, concVars>>

\* lines 132-152 and 158-161: generateCompositeImage resolves
CompositionResolves(i) ==
    /\ applies[i].phase = "Generating"
    /\ applies' = [applies EXCEPT ![i].phase = "Succeeded"]
    /\ LET newHistory == Append(SubSeq(applies[i].history, 1,
                                       applies[i].historyIndex + 1),
                                newSceneFile(i))
       IN  app' = [app EXCEPT !.debugImageUrl = [kind |-> "debugImage", call |-> i],
                              !.debugPrompt = [kind |-> "finalPrompt", call |-> i],
                              !.history = newHistory,
                              !.historyIndex = Len(newHistory) - 1,
                              !.sceneImage = newSceneFile(i),
                              !.isLoading = FALSE,
                              !.persistedOrbPosition = None]
    /\ UNCHANGED <<placement, pipelineVars, geomVars, concVars>>

\* a failure that leaves the App loading
CompositionRejects_StaysLoading(i) ==
    /\ applies[i].phase = "Generating"
    /\ applies' = [applies EXCEPT ![i].phase = "Failed"]
    /\ app' = [app EXCEPT !.error = Str("Failed to generate the image.")]
    /\ UNCHANGED <<placement, pipelineVars, geomVars, concVars>>

\* a failure that drops the current scene from the history
CompositionRejects_DropsScene(i) ==
    /\ applies[i].phase = "Generating"
    /\ applies' = [applies EXCEPT ![i].phase = "Failed"]
    /\ app' = [app EXCEPT !.error = Str("Failed to generate the image."),
                          !.history = <<>>,
                          !.historyIndex = -1,
                          !.sceneImage = None,
                          !.isLoading = FALSE,
                          !.persistedOrbPosition = None]
    /\ UNCHANGED <<placement, pipelineVars, geomVars, concVars>>

\* lines 154-161: generateCompositeImage rejects
CompositionRejects(i) ==
    /\ applies[i].phase = "Generating"
    /\ applies' = [applies EXCEPT ![i].phase = "Failed"]
    /\ app' = [app EXCEPT !.error = Str("Failed to generate the image."),
                          !.isLoading = FALSE,
                          !.persistedOrbPosition = None]
    /\ UNCHANGED <<placement, pipelineVars, geomVars, concVars>>

\* handleInstantStart, lines 94-97: the click on "here" starts the fetch of
\* the default scene
handleInstantStart ==
    /\ UploadView
    /\ app.defaultSceneFetch = "Idle"
    /\ app' = [app EXCEPT !.error = None, !.defaultSceneFetch = "Fetching"]
    /\ UNCHANGED <<applies, placement, pipelineVars, geomVars, concVars>>

\* lines 97-101: the default scene arrives and is uploaded
DefaultSceneLoaded ==
    /\ app.defaultSceneFetch = "Fetching"
    /\ app' = SceneUploaded([app EXCEPT !.defaultSceneFetch = "Idle"], DefaultScene)
    /\ UNCHANGED <<applies, placement, pipelineVars, geomVars, concVars>>

\* lines 102-106: the default scene cannot be fetched
DefaultSceneFails ==
    /\ app.defaultSceneFetch = "Fetching"
    /\ app' = [app EXCEPT !.defaultSceneFetch = "Idle",
                          !.error = Str("Could not load default images.")]
    /\ UNCHANGED <<applies, placement, pipelineVars, geomVars, concVars>>

\* lines 352-363: the undo, redo and change-scene buttons are rendered
ControlsView == MainView /\ ~app.isLoading

\* an undo that moves the index and leaves the scene shown
handleUndo_IndexOnly ==
    /\ ControlsView
    /\ app' = IF app.historyIndex > 0
              THEN [app EXCEPT !.historyIndex = app.historyIndex - 1]
              ELSE app
    /\ UNCHANGED <<applies, placement, pipelineVars, geomVars, concVars>>

\* the body of handleUndo, lines 165-169, applied to a state
\* (history[newIndex] is the element newIndex + 1 of the sequence)
Undone(state) ==
    IF state.historyIndex > 0
    THEN LET newIndex == state.historyIndex - 1
         IN  [state EXCEPT !.historyIndex = newIndex,
                           !.sceneImage = state.history[newIndex + 1]]
    ELSE state

\* handleUndo, lines 164-170
handleUndo ==
    /\ ControlsView
    /\ app' = Undone(app)
    /\ UNCHANGED <<applies, placement, pipelineVars, geomVars, concVars>>

\* a redo that jumps to the newest entry of the history
Redone_ToNewest(state) ==
    IF state.historyIndex < Len(state.history) - 1
    THEN LET newIndex == Len(state.history) - 1
         IN  [state EXCEPT !.historyIndex = newIndex,
                           !.sceneImage = state.history[newIndex + 1]]
    ELSE state

\* the body of handleRedo, lines 173-177, applied to a state
Redone(state) ==
    IF state.historyIndex < Len(state.history) - 1
    THEN LET newIndex == state.historyIndex + 1
         IN  [state EXCEPT !.historyIndex = newIndex,
                           !.sceneImage = state.history[newIndex + 1]]
    ELSE state

\* handleRedo, lines 172-178
handleRedo ==
    /\ ControlsView
    /\ app' = Redone(app)
    /\ UNCHANGED <<applies, placement, pipelineVars, geomVars, concVars>>

\* handleReset, lines 187-196, behind the Try Again button of the error view
handleReset ==
    /\ ErrorView
    /\ app' = resetProductState([app EXCEPT !.sceneImage = None,
                                            !.error = None,
                                            !.isLoading = FALSE,
                                            !.history = <<>>,
                                            !.historyIndex = -1])
    /\ UNCHANGED <<applies, placement, pipelineVars, geomVars, concVars>>

\* handleChangeScene, lines 198-203
handleChangeScene ==
    /\ ControlsView
    /\ app' = resetProductState([app EXCEPT !.sceneImage = None,
                                            !.history = <<>>,
                                            !.historyIndex = -1])
    /\ UNCHANGED <<applies, placement, pipelineVars, geomVars, concVars>>

AppInit ==
    /\ PipelineIdle
    /\ geomArgs = None
    /\ geomOut = None
    /\ calls = [i \in Invocations |-> IdleCall]
    /\ AppMounted

\* a step of an execution of handleProductApply after one of its awaits
ApplyStep(i) ==
    \/ ProductFetched(i)
    \/ ProductFetchFails(i)
    \/ CompositionResolves(i)
    \/ CompositionRejects(i)

AppNext ==
    \/ \E file \in UploadedScenes : handleSceneUpload(file)
    \/ handleInstantStart
    \/ DefaultSceneLoaded
    \/ DefaultSceneFails
    \/ \E product \in Products : setSelectedProduct(product)
    \/ \E i \in Applies, point \in ClickPoints : SurfaceClick(i, point)
    \/ \E i \in Applies : ApplyStep(i)
    \/ handleUndo
    \/ handleRedo
    \/ handleReset
    \/ handleChangeScene

AppSpec == AppInit /\ [][AppNext]_vars

\* every call of generateCompositeImage settles
AppFairness == \A i \in Applies : WF_vars(CompositionResolves(i) \/ CompositionRejects(i))

AppLiveSpec == AppSpec /\ AppFairness

(***************************************************************************)
(* Properties of the App                                                   *)
(***************************************************************************)
\* the execution has been started by a click and its call of
\* generateCompositeImage has not settled
InFlight(i) == applies[i].phase \in {"Fetching", "Generating"}

\* the execution has called generateCompositeImage
Called(i) == applies[i].phase \in {"Generating", "Succeeded", "Failed"}

\* C26: at most one composition is in flight at any time: from the surface
\* click that starts an execution of handleProductApply until its call of
\* generateCompositeImage settles, no execution started by a later click
\* calls generateCompositeImage, whatever the interleaving of clicks, product
\* fetches and the update of the loading state.
C26_AtMostOneCompositionInFlight ==
    \A i \in Applies, j \in Applies :
        (i < j /\ InFlight(i)) => ~Called(j)

\* C27: a composition result is installed only on top of the scene it was
\* generated from: when the scene shown is no longer the one the execution
\* was started on (replaced, changed or reset while the call was in flight),
\* the completion of the call changes none of sceneImage, history and
\* historyIndex.
C27_StaleResultNotInstalled ==
    [][\A i \in Applies :
          (/\ applies[i].phase = "Generating"
           /\ applies'[i].phase = "Succeeded"
           /\ app.sceneImage # applies[i].sceneImage) =>
              /\ app'.sceneImage = app.sceneImage
              /\ app'.history = app.history
              /\ app'.historyIndex = app.historyIndex]_vars

\* C28: in every reachable state of the App either there is no scene (sceneImage
\* is null, history is empty, historyIndex = -1) or historyIndex is a position
\* of history and sceneImage is the entry at that position, after any sequence
\* of uploads, composition completions, undo, redo, change scene and reset.
C28_HistoryConsistent ==
    \/ /\ app.sceneImage = None
       /\ app.history = <<>>
       /\ app.historyIndex = -1
    \/ /\ 0 <= app.historyIndex
       /\ app.historyIndex < Len(app.history)
       /\ app.sceneImage = app.history[app.historyIndex + 1]

\* two compositions have been installed and one of them has been undone
C28_Witness ==
    /\ applies[1].phase = "Succeeded"
    /\ applies[2].phase = "Succeeded"
    /\ Len(app.history) = 3
    /\ app.historyIndex = 1
    /\ app.sceneImage = app.history[2]

Settled(i) == applies[i].phase \in {"Succeeded", "Failed"}

\* C29: every execution of handleProductApply that sets isLoading sets it back
\* to false and clears the pinned orb position when its call of
\* generateCompositeImage settles, resolved or rejected; given that the call
\* settles, the App does not stay loading: isLoading holds only while a call
\* is pending, and is always followed by a state where it is false.
C29_LoadingAlwaysEnds ==
    /\ [](app.isLoading => \E i \in Applies : applies[i].phase = "Generating")
    /\ [][\A i \in Applies :
             (applies[i].phase = "Generating" /\ applies'[i].phase # "Generating") =>
                 (~app'.isLoading /\ app'.persistedOrbPosition = None)]_vars
    /\ \A i \in Applies : (applies[i].phase = "Generating") ~> Settled(i)
    /\ app.isLoading ~> ~app.isLoading

\* one call has rejected, the other has resolved, and the App is not loading
C29_Witness ==
    /\ applies[1].phase = "Failed"
    /\ applies[2].phase = "Succeeded"
    /\ ~app.isLoading
    /\ app.persistedOrbPosition = None

\* C30: when generateCompositeImage rejects, or the product image cannot be
\* fetched, handleProductApply sets the error message and changes none of
\* sceneImage, history and historyIndex: nothing is appended to the history.
C30_FailureLeavesSceneAndHistory ==
    [][\A i \in Applies :
          (\/ applies[i].phase = "Generating" /\ applies'[i].phase = "Failed"
           \/ applies[i].phase = "Fetching" /\ applies'[i].phase = "FetchFailed") =>
              /\ app'.error # None
              /\ app'.sceneImage = app.sceneImage
              /\ app'.history = app.history
              /\ app'.historyIndex = app.historyIndex]_vars

\* a call has rejected: the error is shown over the scene and the history of
\* the click
C30_Witness ==
    /\ applies[1].phase = "Failed"
    /\ app.error = Str("Failed to generate the image.")
    /\ app.sceneImage # None
    /\ app.sceneImage = applies[1].sceneImage
    /\ app.history = applies[1].history
    /\ app.historyIndex = applies[1].historyIndex

\* C31: a successful composition started at history position i replaces the
\* history by the first i + 1 entries of the history it was started on,
\* followed by the new image, and makes the new image current: the redo
\* entries after position i are discarded, entries 0..i are unchanged and
\* historyIndex becomes i + 1.
C31_SuccessTruncatesRedoEntries ==
    [][\A k \in Applies :
          (applies[k].phase = "Generating" /\ applies'[k].phase = "Succeeded") =>
              LET started == applies[k].history
                  i       == applies[k].historyIndex
              IN  /\ Len(app'.history) = i + 2
                  /\ \A n \in 1..(i + 1) : app'.history[n] = started[n]
                  /\ app'.history[i + 2] = newSceneFile(k)
                  /\ app'.history[i + 2] \notin {started[n] : n \in 1..Len(started)}
                  /\ app'.historyIndex = i + 1
                  /\ app'.sceneImage = app'.history[i + 2]]_vars

\* the second composition was started at position 0 of a history of two
\* entries: the entry it could redo to is gone
C31_Witness ==
    /\ applies[1].phase = "Succeeded"
    /\ applies[2].phase = "Succeeded"
    /\ Len(applies[2].history) = 2
    /\ applies[2].historyIndex = 0
    /\ Len(app.history) = 2
    /\ app.history[1] = applies[2].history[1]
    /\ app.history[2] # applies[2].history[2]
    /\ app.historyIndex = 1
    /\ app.sceneImage = app.history[2]

\* C32: handleUndo followed by handleRedo (when historyIndex > 0) and
\* handleRedo followed by handleUndo (when historyIndex < history.length - 1)
\* restore the same historyIndex and sceneImage; handleUndo at index 0 and
\* handleRedo at the last index change nothing; neither changes the contents
\* of history.
C32_UndoRedoRoundTrip ==
    /\ app.historyIndex > 0 =>
           /\ Undone(app).historyIndex = app.historyIndex - 1
           /\ Redone(Undone(app)) = app
    /\ app.historyIndex < Len(app.history) - 1 =>
           /\ Redone(app).historyIndex = app.historyIndex + 1
           /\ Undone(Redone(app)) = app
    /\ app.historyIndex <= 0 => Undone(app) = app
    /\ app.historyIndex >= Len(app.history) - 1 => Redone(app) = app
    /\ Undone(app).history = app.history
    /\ Redone(app).history = app.history

\* the middle of a history of three entries, reached by handleUndo: both
\* round trips apply
C32_Witness ==
    /\ Len(app.history) = 3
    /\ app.historyIndex = 1
    /\ ControlsView
    /\ Undone(app).sceneImage = app.history[1]
    /\ Redone(app).sceneImage = app.history[3]
    /\ Redone(app).sceneImage # app.sceneImage
    /\ Undone(app).sceneImage # app.sceneImage

====
